---- MODULE Spec2Model ----
(***************************************************************************)
(* A model of the binding tool (bt): the binding store of                  *)
(* src/src/command.rs (BindingProcessor, BindingWriter and the three       *)
(* confirmers) acting on the directory tree under the bindings root, and   *)
(* the dependency-mapping command with the manifest parser and the worker  *)
(* pool of src/src/deps.rs.                                                *)
(*                                                                         *)
(* Strings (arguments, file names, file contents) are sequences of tokens. *)
(* A token is either one of the characters the code inspects ("=", "@",    *)
(* white space, the letters of a confirmation answer) or a run of other    *)
(* characters, so "k1=v1" is <<"k1", "=", "v1">>.                          *)
(***************************************************************************)
EXTENDS Integers, Sequences, FiniteSets, TLC

VARIABLES
    fs,     \* the directory tree under bindings_home
    pre,    \* the tree as the running invocation found it
    call,   \* the running invocation: its arguments, its result, its prompts
    pc,     \* "idle": no invocation is running; "fetching": the dependency-
            \* mapping command is in download_dependencies; "done": returned
    dm,       \* the locals of the running dependency-mapping command
    queue,    \* Arc<Mutex<Vec<Dependency>>>: the dependencies not yet popped
    mutex,    \* the Mutex: the worker holding its guard, and its poison flag
    workers,  \* the spawned threads: where each one is, what it popped
    requests  \* the uris the agent has sent a GET for, in order

storeVars == <<fs, pre, call, pc>>
fetchVars == <<dm, queue, mutex, workers, requests>>
vars == <<fs, pre, call, pc, dm, queue, mutex, workers, requests>>

----------------------------------------------------------------------------
(* Bounds of the model *)

\* the longest key list given to one delete_bindings call
MaxKeys == 2

\* the largest BT_MAX_SIMULTANEOUS (number of worker threads)
MaxSimult == 2

\* the longest metadata.dependencies array given to transform
MaxEntries == 2

\* the longest line given to the console confirmer, in characters
MaxLine == 4

\* the longest list of pairs given to add_bindings
MaxPairs == 2

----------------------------------------------------------------------------
(* Option<&str> *)

None == [some |-> FALSE, v |-> <<>>]
Some(s) == [some |-> TRUE, v |-> s]
\* a variant that ignores the option and takes the default
unwrap_or_default(o, d) == d

unwrap_or(o, d) == IF o.some THEN o.v ELSE d

----------------------------------------------------------------------------
(* str *)

\* the position of the first c in s, 0 when s has none
find(s, c) ==
    IF \E i \in 1..Len(s) : s[i] = c
    THEN CHOOSE i \in 1..Len(s) : s[i] = c /\ \A j \in 1..(i - 1) : s[j] # c
    ELSE 0

\* a variant that splits at the last c
split_once_last(s, c) ==
    LET i == IF \E j \in 1..Len(s) : s[j] = c
             THEN CHOOSE j \in 1..Len(s) :
                      s[j] = c /\ \A k \in (j + 1)..Len(s) : s[k] # c
             ELSE 0
    IN  IF i = 0
        THEN [some |-> FALSE, key |-> <<>>, value |-> <<>>]
        ELSE [some |-> TRUE, key |-> SubSeq(s, 1, i - 1),
              value |-> SubSeq(s, i + 1, Len(s))]

split_once(s, c) ==
    LET i == find(s, c)
    IN  IF i = 0
        THEN [some |-> FALSE, key |-> <<>>, value |-> <<>>]
        ELSE [some |-> TRUE, key |-> SubSeq(s, 1, i - 1),
              value |-> SubSeq(s, i + 1, Len(s))]

starts_with(s, c) == Len(s) > 0 /\ s[1] = c

RECURSIVE trim_start_matches(_, _)
trim_start_matches(s, c) ==
    IF starts_with(s, c) THEN trim_start_matches(Tail(s), c) ELSE s

WhiteSpace == {" ", "\t", "\n", "\r"}

RECURSIVE trim_start(_)
trim_start(s) ==
    IF Len(s) > 0 /\ s[1] \in WhiteSpace THEN trim_start(Tail(s)) ELSE s

RECURSIVE trim_end(_)
trim_end(s) ==
    IF Len(s) > 0 /\ s[Len(s)] \in WhiteSpace
    THEN trim_end(SubSeq(s, 1, Len(s) - 1))
    ELSE s

trim(s) == trim_end(trim_start(s))

lower_char(c) ==
    CASE c = "Y" -> "y"
      [] c = "E" -> "e"
      [] c = "S" -> "s"
      [] c = "N" -> "n"
      [] c = "O" -> "o"
      [] OTHER -> c

to_lowercase(s) == [i \in 1..Len(s) |-> lower_char(s[i])]

----------------------------------------------------------------------------
(* The confirmers *)

\* what stdin().lock().read_line yields: the Result and the text read
ReadOk(text) == [ok |-> TRUE, text |-> text]
ReadErr == [ok |-> FALSE, text |-> <<>>]

\* the n-th read_line of an invocation; end of input reads as Ok(0), ""
read_line(stdin, n) == IF n <= Len(stdin) THEN stdin[n] ELSE ReadOk(<<>>)

\* a variant that looks at the text only, not at the Result of read_line
ConsoleBindingConfirmer_confirm_text_only(res) ==
    LET input == to_lowercase(trim(res.text))
    IN  input = <<"y">> \/ input = <<"y", "e", "s">>

ConsoleBindingConfirmer_confirm(res) ==
    LET input == to_lowercase(trim(res.text))
    IN  res.ok /\ (input = <<"y">> \/ input = <<"y", "e", "s">>)

AlwaysBindingConfirmer_confirm == TRUE

NeverBindingConfirmer_confirm == FALSE

\* the number of read_line calls of one confirm
lines_read(confirmer) == IF confirmer = "Console" THEN 1 ELSE 0

\* BindingConfirmers::confirm; res is the line the console variant reads
confirm(confirmer, res) ==
    CASE confirmer = "Always" -> AlwaysBindingConfirmer_confirm
      [] confirmer = "Never" -> NeverBindingConfirmer_confirm
      [] confirmer = "Console" -> ConsoleBindingConfirmer_confirm(res)

----------------------------------------------------------------------------
(* The directory tree: fs.home says whether bindings_home is a directory,  *)
(* fs.dirs maps the name of each existing binding directory to its files   *)
(* (name -> content) and its binaries subdirectory.                        *)

EmptyFn == [x \in {} |-> x]

Put(f, k, v) == [x \in (DOMAIN f) \cup {k} |-> IF x = k THEN v ELSE f[x]]
Drop(f, k) == [x \in (DOMAIN f) \ {k} |-> f[x]]

NoBinaries == [exists |-> FALSE, files |-> EmptyFn]
NewDir == [files |-> EmptyFn, binaries |-> NoBinaries]
EmptyFs == [home |-> FALSE, dirs |-> EmptyFn]

TypeFile == <<"type">>
BinariesDir == <<"binaries">>

\* Path::is_dir of bindings_home/p/k (joining "" names the directory p itself)
is_dir(f, p, k) ==
    /\ p \in DOMAIN f.dirs
    /\ (k = <<>> \/ (k = BinariesDir /\ f.dirs[p].binaries.exists))

\* Path::exists of bindings_home/p/k
exists(f, p, k) ==
    /\ p \in DOMAIN f.dirs
    /\ (k \in DOMAIN f.dirs[p].files \/ is_dir(f, p, k))

\* the files outside the bindings root that an @path can name
SourceFiles == (<<"src">> :> <<"actual value">>)

----------------------------------------------------------------------------
(* Results: Ok(()) or an anyhow error, with the tree the call leaves *)

Ok(f) == [ok |-> TRUE, err |-> "", fs |-> f]
Err(msg, f) == [ok |-> FALSE, err |-> msg, fs |-> f]

----------------------------------------------------------------------------
(* std::fs *)

create_dir_all(f, p) ==
    [home |-> TRUE,
     dirs |-> IF p \in DOMAIN f.dirs THEN f.dirs ELSE Put(f.dirs, p, NewDir)]

\* File::create(bindings_home/p/k) followed by write_all(content)
create_and_write(f, p, k, content) ==
    [f EXCEPT !.dirs[p].files = Put(@, k, content)]

remove_file(f, p, k) == [f EXCEPT !.dirs[p].files = Drop(@, k)]

\* a variant that empties the directory and leaves it in place
remove_dir_all_keeps_dir(f, p) == [f EXCEPT !.dirs[p] = NewDir]

remove_dir_all(f, p) == [f EXCEPT !.dirs = Drop(@, p)]

----------------------------------------------------------------------------
(* BindingWriter: w = [path, b_type, key, value] *)

BindingWriter_new(path, b_type, key, value) ==
    [path |-> path, b_type |-> b_type, key |-> key, value |-> value]

\* a variant that asks about the binding directory instead of the key file
binding_key_path_exists_dir(f, w) == w.path \in DOMAIN f.dirs

binding_key_path_exists(f, w) == exists(f, w.path, w.key)

\* a variant that writes the value where the type belongs
write_type_value(f, w) == Ok(create_and_write(f, w.path, TypeFile, w.value))

write_type(f, w) == Ok(create_and_write(f, w.path, TypeFile, w.b_type))

\* the path of bindings_home, as one token
Root == "/bindings/"

\* a path of the form bindings_home/p/k
in_root(src) == Len(src) = 4 /\ src[1] = Root /\ src[3] = "/"

\* Path::canonicalize: an error when nothing is at the path
canonicalize(f, src) ==
    IF src \in DOMAIN SourceFiles
    THEN [ok |-> TRUE, inside |-> FALSE, p |-> <<>>, k |-> src]
    ELSE IF in_root(src) /\ exists(f, <<src[2]>>, <<src[4]>>)
    THEN [ok |-> TRUE, inside |-> TRUE, p |-> <<src[2]>>, k |-> <<src[4]>>]
    ELSE [ok |-> FALSE, inside |-> FALSE, p |-> <<>>, k |-> src]

\* what a reader opened on the canonical path from reads
read(f, from) ==
    IF from.inside THEN f.dirs[from.p].files[from.k] ELSE SourceFiles[from.k]

\* a variant that reads the whole source before it opens the destination
copy_buffered(f, from, p, k) ==
    IF from.inside /\ is_dir(f, from.p, from.k)
    THEN Err("failed to copy", f)
    ELSE IF is_dir(f, p, k)
    THEN Err("failed to copy", f)
    ELSE Ok(create_and_write(f, p, k, read(f, from)))

\* fs::copy(from, bindings_home/p/k): the source must be a regular file, the
\* destination is opened with create and truncate, and then the bytes the
\* source holds are copied; a file copied onto itself is left empty
copy(f, from, p, k) ==
    IF from.inside /\ is_dir(f, from.p, from.k)
    THEN Err("failed to copy", f)
    ELSE IF is_dir(f, p, k)
    THEN Err("failed to copy", f)
    ELSE LET opened == create_and_write(f, p, k, <<>>)
         IN  Ok(create_and_write(opened, p, k, read(opened, from)))

write_key_as_file(f, w) ==
    LET src == trim_start_matches(w.value, "@")
        src_path == canonicalize(f, src)
    IN  IF ~src_path.ok
        THEN Err("cannot canonicalize path to source file", f)
        ELSE copy(f, src_path, w.path, w.key)

\* a variant that opens the key file with create_new: an existing file fails
write_key_as_value_create_new(f, w) ==
    IF exists(f, w.path, w.key)
    THEN Err("cannot open binding key path", f)
    ELSE Ok(create_and_write(f, w.path, w.key, w.value))

write_key_as_value(f, w) ==
    IF is_dir(f, w.path, w.key)
    THEN Err("cannot open binding key path", f)
    ELSE Ok(create_and_write(f, w.path, w.key, w.value))

write(f, w) ==
    LET made == create_dir_all(f, w.path)
        typed == write_type(made, w)
    IN  IF ~typed.ok THEN typed
        ELSE IF starts_with(w.value, "@")
        THEN write_key_as_file(typed.fs, w)
        ELSE write_key_as_value(typed.fs, w)

----------------------------------------------------------------------------
(* BindingProcessor: self = [binding_type, binding_name, confirmer].       *)
(* A call also yields asked: the confirmations it invoked, in order, each  *)
(* with the path asked about and the answer.                               *)

BindingProcessor_new(binding_type, binding_name, confirmer) ==
    [binding_type |-> binding_type, binding_name |-> binding_name,
     confirmer |-> confirmer]

Asked(path, answer) == [path |-> path, answer |-> answer]

WithAsked(r, asked) ==
    [ok |-> r.ok, err |-> r.err, fs |-> r.fs, asked |-> asked]

\* a variant that overwrites blindly: the confirmer is never consulted
add_binding_unguarded(f, self, binding_key_val, stdin) ==
    IF ~self.binding_type.some
    THEN WithAsked(Err("binding type is required when adding a binding", f), <<>>)
    ELSE
    LET binding_type == self.binding_type.v
        binding_path == unwrap_or(self.binding_name, binding_type)
        kv == split_once(binding_key_val, "=")
        writer == BindingWriter_new(binding_path, binding_type, kv.key, kv.value)
    IN  IF ~kv.some
        THEN WithAsked(Err("could not parse key/value", f), <<>>)
        ELSE WithAsked(write(f, writer), <<>>)

\* a variant that creates the directory and writes the type file before it
\* asks about the key file
add_binding_types_first(f, self, binding_key_val, stdin) ==
    IF ~self.binding_type.some
    THEN WithAsked(Err("binding type is required when adding a binding", f), <<>>)
    ELSE
    LET binding_type == self.binding_type.v
        binding_path == unwrap_or(self.binding_name, binding_type)
        kv == split_once(binding_key_val, "=")
        writer == BindingWriter_new(binding_path, binding_type, kv.key, kv.value)
        typed == write_type(create_dir_all(f, binding_path), writer)
    IN  IF ~kv.some
        THEN WithAsked(Err("could not parse key/value", f), <<>>)
        ELSE IF binding_key_path_exists(f, writer)
        THEN LET result == confirm(self.confirmer, read_line(stdin, 1))
                 asked == <<Asked(<<binding_path, kv.key>>, result)>>
             IN  IF ~result
                 THEN WithAsked(Err("binding already exists", typed.fs), asked)
                 ELSE WithAsked(write(f, writer), asked)
        ELSE WithAsked(write(f, writer), <<>>)

add_binding(f, self, binding_key_val, stdin) ==
    IF ~self.binding_type.some
    THEN WithAsked(Err("binding type is required when adding a binding", f), <<>>)
    ELSE
    LET binding_type == self.binding_type.v
        binding_path == unwrap_or(self.binding_name, binding_type)
        kv == split_once(binding_key_val, "=")
        writer == BindingWriter_new(binding_path, binding_type, kv.key, kv.value)
    IN  IF ~kv.some
        THEN WithAsked(Err("could not parse key/value", f), <<>>)
        ELSE IF binding_key_path_exists(f, writer)
        THEN LET result == confirm(self.confirmer, read_line(stdin, 1))
                 asked == <<Asked(<<binding_path, kv.key>>, result)>>
             IN  IF ~result
                 THEN WithAsked(Err("binding already exists", f), asked)
                 ELSE WithAsked(write(f, writer), asked)
        ELSE WithAsked(write(f, writer), <<>>)

\* a variant of the loop that removes the key file before it asks
RECURSIVE delete_keys_remove_first(_, _, _, _, _, _)
delete_keys_remove_first(f, self, binding_path, keys, stdin, asked) ==
    IF keys = <<>>
    THEN WithAsked(Ok(f), asked)
    ELSE
    LET binding_key == Head(keys)
    IN  IF exists(f, binding_path, binding_key) /\ ~is_dir(f, binding_path, binding_key)
        THEN LET removed == remove_file(f, binding_path, binding_key)
                 result == confirm(self.confirmer, read_line(stdin, Len(asked) + 1))
                 asked2 == Append(asked, Asked(<<binding_path, binding_key>>, result))
             IN  IF ~result
                 THEN WithAsked(Err("confirmation declined, exiting", removed), asked2)
                 ELSE delete_keys_remove_first(removed, self, binding_path,
                                               Tail(keys), stdin, asked2)
        ELSE delete_keys_remove_first(f, self, binding_path, Tail(keys), stdin, asked)

\* a variant of the loop that leaves after the first key
delete_keys_first_only(f, self, binding_path, keys, stdin, asked) ==
    IF keys = <<>>
    THEN WithAsked(Ok(f), asked)
    ELSE
    LET binding_key == Head(keys)
    IN  IF exists(f, binding_path, binding_key)
        THEN LET result == confirm(self.confirmer, read_line(stdin, Len(asked) + 1))
                 asked2 == Append(asked, Asked(<<binding_path, binding_key>>, result))
             IN  IF ~result
                 THEN WithAsked(Err("confirmation declined, exiting", f), asked2)
                 ELSE IF is_dir(f, binding_path, binding_key)
                 THEN WithAsked(Err("remove_file: is a directory", f), asked2)
                 ELSE WithAsked(Ok(remove_file(f, binding_path, binding_key)), asked2)
        ELSE WithAsked(Ok(f), asked)

\* a variant of the loop that skips a declined key and goes on
RECURSIVE delete_keys_skip_declined(_, _, _, _, _, _)
delete_keys_skip_declined(f, self, binding_path, keys, stdin, asked) ==
    IF keys = <<>>
    THEN WithAsked(Ok(f), asked)
    ELSE
    LET binding_key == Head(keys)
    IN  IF exists(f, binding_path, binding_key)
        THEN LET result == confirm(self.confirmer, read_line(stdin, Len(asked) + 1))
                 asked2 == Append(asked, Asked(<<binding_path, binding_key>>, result))
             IN  IF ~result \/ is_dir(f, binding_path, binding_key)
                 THEN delete_keys_skip_declined(f, self, binding_path, Tail(keys),
                                                stdin, asked2)
                 ELSE delete_keys_skip_declined(
                          remove_file(f, binding_path, binding_key), self,
                          binding_path, Tail(keys), stdin, asked2)
        ELSE delete_keys_skip_declined(f, self, binding_path, Tail(keys), stdin, asked)

\* the loop of delete_bindings over the keys not yet visited
RECURSIVE delete_keys(_, _, _, _, _, _)
delete_keys(f, self, binding_path, keys, stdin, asked) ==
    IF keys = <<>>
    THEN WithAsked(Ok(f), asked)
    ELSE
    LET binding_key == Head(keys)
    IN  IF exists(f, binding_path, binding_key)
        THEN LET result == confirm(self.confirmer, read_line(stdin, Len(asked) + 1))
                 asked2 == Append(asked, Asked(<<binding_path, binding_key>>, result))
             IN  IF ~result
                 THEN WithAsked(Err("confirmation declined, exiting", f), asked2)
                 ELSE IF is_dir(f, binding_path, binding_key)
                 THEN WithAsked(Err("remove_file: is a directory", f), asked2)
                 ELSE delete_keys(remove_file(f, binding_path, binding_key), self,
                                  binding_path, Tail(keys), stdin, asked2)
        ELSE delete_keys(f, self, binding_path, Tail(keys), stdin, asked)

\* a variant that removes the binding directory once a key-scoped delete has
\* left no key file in it
delete_bindings_prunes_empty(f, self, binding_keys, stdin) ==
    IF ~f.home
    THEN WithAsked(Err("bindings home must be a directory", f), <<>>)
    ELSE
    LET binding_path == self.binding_name.v
        looped == delete_keys(f, self, binding_path, binding_keys, stdin, <<>>)
    IN  IF ~looped.ok THEN looped
        ELSE IF binding_path \in DOMAIN looped.fs.dirs
                /\ (DOMAIN looped.fs.dirs[binding_path].files) \ {TypeFile} = {}
        THEN WithAsked(Ok(remove_dir_all(looped.fs, binding_path)), looped.asked)
        ELSE looped

delete_bindings(f, self, binding_keys, stdin) ==
    IF ~f.home
    THEN WithAsked(Err("bindings home must be a directory", f), <<>>)
    ELSE
    LET binding_path == self.binding_name.v
        looped == delete_keys(f, self, binding_path, binding_keys, stdin, <<>>)
    IN  IF ~looped.ok THEN looped
        ELSE IF Len(binding_keys) = 0
        THEN LET result == confirm(self.confirmer,
                                   read_line(stdin, Len(looped.asked) + 1))
                 asked == Append(looped.asked, Asked(<<binding_path>>, result))
             IN  IF ~result
                 THEN WithAsked(Err("confirmation declined, exiting", looped.fs), asked)
                 ELSE IF binding_path \notin DOMAIN looped.fs.dirs
                 THEN WithAsked(Err("remove_dir_all: not found", looped.fs), asked)
                 ELSE WithAsked(Ok(remove_dir_all(looped.fs, binding_path)), asked)
        ELSE looped

\* a variant of the loop that goes on to the next pair after a failure and
\* reports the last one
RECURSIVE add_bindings_keeps_going(_, _, _, _, _)
add_bindings_keeps_going(f, self, binding_key_vals, stdin, asked) ==
    IF binding_key_vals = <<>>
    THEN WithAsked(Ok(f), asked)
    ELSE
    LET r == add_binding(f, self, Head(binding_key_vals),
                         SubSeq(stdin, Len(asked) + 1, Len(stdin)))
        rest == add_bindings_keeps_going(r.fs, self, Tail(binding_key_vals),
                                         stdin, asked \o r.asked)
    IN  IF ~r.ok /\ rest.ok
        THEN WithAsked(Err(r.err, rest.fs), rest.asked)
        ELSE rest

\* add_bindings: the pairs in order, leaving at the first error; a prompt
\* reads the next line of the standard input
RECURSIVE add_bindings(_, _, _, _, _)
add_bindings(f, self, binding_key_vals, stdin, asked) ==
    IF binding_key_vals = <<>>
    THEN WithAsked(Ok(f), asked)
    ELSE
    LET r == add_binding(f, self, Head(binding_key_vals),
                         SubSeq(stdin, Len(asked) + 1, Len(stdin)))
    IN  IF ~r.ok
        THEN WithAsked(r, asked \o r.asked)
        ELSE add_bindings(r.fs, self, Tail(binding_key_vals), stdin,
                          asked \o r.asked)

----------------------------------------------------------------------------
(* deps.rs: Dependency.  A uri is a sequence of tokens: the scheme, then   *)
(* for a hierarchical url "//", the host and the path, one token for each  *)
(* "/" and each segment.                                                   *)

Dependency(sha256, uri) == [sha256 |-> sha256, uri |-> uri]

Schemes == {"https:", "data:"}

\* Url::parse: a string without a scheme is a relative url without a base
Url_parse(uri) == Len(uri) > 0 /\ uri[1] \in Schemes

\* Url::path_segments is None for a cannot-be-a-base url (data:...)
cannot_be_a_base(uri) == Len(uri) < 2 \/ uri[2] # "//"

\* the last of the path segments: empty for no path and for a trailing "/"
last_segment(uri) ==
    IF Len(uri) <= 3 \/ uri[Len(uri)] = "/" THEN <<>> ELSE <<uri[Len(uri)]>>

Value(v) == [ok |-> TRUE, err |-> "", v |-> v]
Failure(msg) == [ok |-> FALSE, err |-> msg, v |-> <<>>]

filename(d) ==
    IF ~Url_parse(d.uri) THEN Failure("relative URL without a base")
    ELSE IF cannot_be_a_base(d.uri) THEN Failure("no path segments for uri")
    ELSE Value(last_segment(d.uri))

\* hex::encode of the Sha256 digest of a content
sha256_hex(content) == <<"#">> \o content

\* a variant that never finds the destination up to date
checksum_matches_never(d, f, binding_path) ==
    LET name == filename(d)
    IN  IF ~name.ok THEN [ok |-> FALSE, err |-> name.err, v |-> FALSE]
        ELSE [ok |-> TRUE, err |-> "", v |-> FALSE]

\* checksum_matches: v is the bool of an Ok result
checksum_matches(d, f, binding_path) ==
    LET name == filename(d)
        binaries == f.dirs[binding_path].binaries
    IN  IF ~name.ok THEN [ok |-> FALSE, err |-> name.err, v |-> FALSE]
        ELSE IF ~(binding_path \in DOMAIN f.dirs /\ binaries.exists)
        THEN [ok |-> TRUE, err |-> "", v |-> FALSE]
        ELSE IF name.v = <<>>
        THEN [ok |-> FALSE, err |-> "Is a directory", v |-> FALSE]
        ELSE IF name.v \notin DOMAIN binaries.files
        THEN [ok |-> TRUE, err |-> "", v |-> FALSE]
        ELSE [ok |-> TRUE, err |-> "",
              v |-> sha256_hex(binaries.files[name.v]) = d.sha256]

\* what the server answers to a GET
Refused == [ok |-> FALSE, body |-> <<>>]
Served(body) == [ok |-> TRUE, body |-> body]

Downloaded(ok, err, f, requested) ==
    [ok |-> ok, err |-> err, fs |-> f, requested |-> requested]

\* a variant that downloads whatever the destination holds
download_unconditional(d, f, binding_path, response) ==
    LET name == filename(d)
    IN  IF ~name.ok THEN Downloaded(FALSE, name.err, f, FALSE)
        ELSE IF ~(binding_path \in DOMAIN f.dirs /\ f.dirs[binding_path].binaries.exists)
                \/ name.v = <<>>
        THEN Downloaded(FALSE, "cannot open file", f, FALSE)
        ELSE IF ~response.ok
        THEN Downloaded(FALSE, "request failed",
                 [f EXCEPT !.dirs[binding_path].binaries.files =
                               Put(@, name.v, <<>>)], TRUE)
        ELSE Downloaded(TRUE, "",
                 [f EXCEPT !.dirs[binding_path].binaries.files =
                               Put(@, name.v, response.body)], TRUE)

\* a variant that hashes the bytes it has written and fails on a mismatch
download_verified(d, f, binding_path, response) ==
    LET matches == checksum_matches(d, f, binding_path)
        name == filename(d).v
    IN  IF ~matches.ok THEN Downloaded(FALSE, matches.err, f, FALSE)
        ELSE IF matches.v THEN Downloaded(TRUE, "", f, FALSE)
        ELSE IF ~(binding_path \in DOMAIN f.dirs /\ f.dirs[binding_path].binaries.exists)
                \/ name = <<>>
        THEN Downloaded(FALSE, "cannot open file", f, FALSE)
        ELSE
        LET created == [f EXCEPT !.dirs[binding_path].binaries.files =
                                     Put(@, name, <<>>)]
            copied == [f EXCEPT !.dirs[binding_path].binaries.files =
                                    Put(@, name, response.body)]
        IN  IF ~response.ok
            THEN Downloaded(FALSE, "request failed", created, TRUE)
            ELSE IF sha256_hex(response.body) # d.sha256
            THEN Downloaded(FALSE, "checksum mismatch", copied, TRUE)
            ELSE Downloaded(TRUE, "", copied, TRUE)

\* download: nothing is requested when the checksum matches; otherwise
\* File::create truncates the destination, then the GET is sent and its body
\* copied
download(d, f, binding_path, response) ==
    LET matches == checksum_matches(d, f, binding_path)
        name == filename(d).v
    IN  IF ~matches.ok THEN Downloaded(FALSE, matches.err, f, FALSE)
        ELSE IF matches.v THEN Downloaded(TRUE, "", f, FALSE)
        ELSE IF ~(binding_path \in DOMAIN f.dirs /\ f.dirs[binding_path].binaries.exists)
                \/ name = <<>>
        THEN Downloaded(FALSE, "cannot open file", f, FALSE)
        ELSE
        LET created == [f EXCEPT !.dirs[binding_path].binaries.files =
                                     Put(@, name, <<>>)]
        IN  IF ~response.ok
            THEN Downloaded(FALSE, "request failed", created, TRUE)
            ELSE Downloaded(TRUE, "",
                     [created EXCEPT !.dirs[binding_path].binaries.files =
                                         Put(@, name, response.body)], TRUE)

----------------------------------------------------------------------------
(* deps.rs: the manifest.  A toml::Value is a string, an integer, a table  *)
(* (a record of values) or an array (a sequence of values).                *)

TString(str) == [t |-> "string", s |-> str]
TInteger == [t |-> "integer"]
TTable(kv) == [t |-> "table", kv |-> kv]
TArray(items) == [t |-> "array", items |-> items]

\* the three ways a parse ends: Ok(deps), an Err result, a panic
\* a variant that returns the dependencies last entry first
Parsed_reversed(deps) ==
    [kind |-> "ok", msg |-> "",
     deps |-> [j \in 1..Len(deps) |-> deps[Len(deps) + 1 - j]]]

Parsed(deps) == [kind |-> "ok", msg |-> "", deps |-> deps]
ParseErr(msg) == [kind |-> "err", msg |-> msg, deps |-> <<>>]
ParsePanic(msg) == [kind |-> "panic", msg |-> msg, deps |-> <<>>]

\* a variant of the loop that takes sha256 whenever it is present and only
\* fails when both fields are missing
RECURSIVE transform_deps_prefers_sha256(_, _)
transform_deps_prefers_sha256(deps_metadata, deps) ==
    IF Len(deps_metadata) = 0 THEN Parsed(deps)
    ELSE
    LET d == Head(deps_metadata)
        table == d.kv
        has_sha256 == "sha256" \in DOMAIN table
        has_checksum == "checksum" \in DOMAIN table
        parts == split_once(table.checksum.s, ":")
    IN  IF d.t # "table" THEN ParseErr("dependency should be a table")
        ELSE IF "uri" \notin DOMAIN table THEN ParseErr("uri field is required")
        ELSE IF table.uri.t # "string" THEN ParseErr("uri should be a string")
        ELSE IF ~has_sha256 /\ ~has_checksum
        THEN ParsePanic("sha256 or checksum field is required")
        ELSE IF has_sha256
        THEN IF table.sha256.t # "string"
             THEN ParseErr("sha256 field should be a string")
             ELSE transform_deps_prefers_sha256(Tail(deps_metadata),
                      Append(deps, Dependency(table.sha256.s, table.uri.s)))
        ELSE IF table.checksum.t # "string"
        THEN ParseErr("checksum field should be a string")
        ELSE IF parts.some /\ parts.key = <<"sha256">>
        THEN transform_deps_prefers_sha256(Tail(deps_metadata),
                 Append(deps, Dependency(parts.value, table.uri.s)))
        ELSE ParsePanic("only sha256 algorithm is supported")

\* the loop of transform over the entries not yet visited
RECURSIVE transform_deps(_, _)
transform_deps(deps_metadata, deps) ==
    IF Len(deps_metadata) = 0 THEN Parsed(deps)
    ELSE
    LET d == Head(deps_metadata)
        table == d.kv
        has_sha256 == "sha256" \in DOMAIN table
        has_checksum == "checksum" \in DOMAIN table
        parts == split_once(table.checksum.s, ":")
    IN  IF d.t # "table" THEN ParseErr("dependency should be a table")
        ELSE IF "uri" \notin DOMAIN table THEN ParseErr("uri field is required")
        ELSE IF table.uri.t # "string" THEN ParseErr("uri should be a string")
        ELSE IF (has_sha256 /\ has_checksum) \/ (~has_sha256 /\ ~has_checksum)
        THEN ParsePanic("sha256 or checksum field is required")
        ELSE IF has_sha256
        THEN IF table.sha256.t # "string"
             THEN ParseErr("sha256 field should be a string")
             ELSE transform_deps(Tail(deps_metadata),
                      Append(deps, Dependency(table.sha256.s, table.uri.s)))
        ELSE IF table.checksum.t # "string"
        THEN ParseErr("checksum field should be a string")
        ELSE IF parts.some /\ parts.key = <<"sha256">>
        THEN transform_deps(Tail(deps_metadata),
                 Append(deps, Dependency(parts.value, table.uri.s)))
        ELSE ParsePanic("only sha256 algorithm is supported")

transform(toml) ==
    IF toml.t # "table" THEN ParseErr("buildpack.toml format is invalid")
    ELSE IF "metadata" \notin DOMAIN toml.kv
    THEN ParseErr("no metadata present in buildpack.toml")
    ELSE IF toml.kv.metadata.t # "table" THEN ParseErr("metadata should be a table")
    ELSE IF "dependencies" \notin DOMAIN toml.kv.metadata.kv
    THEN ParseErr("no dependencies present")
    ELSE IF toml.kv.metadata.kv.dependencies.t # "array"
    THEN ParseErr("dependencies should be an array")
    ELSE transform_deps(toml.kv.metadata.kv.dependencies.items, <<>>)

\* the bodies, in the pieces a response is read in, and the artifacts the
\* manifests name
BodyA == <<"a1", "a2">>
BodyB == <<"b1", "b2">>
Corrupt == <<"garbage">>

UriA == <<"https:", "//", "example.com", "/", "a.tgz">>
UriB == <<"https:", "//", "example.com", "/", "dist", "/", "b.tgz">>
\* another uri whose last path segment is that of UriA
UriC == <<"https:", "//", "example.com", "/", "other", "/", "a.tgz">>

DepA == Dependency(sha256_hex(BodyA), UriA)
DepB == Dependency(sha256_hex(BodyB), UriB)
DepC == Dependency(sha256_hex(BodyB), UriC)

Entry(d) == TTable([uri |-> TString(d.uri), sha256 |-> TString(d.sha256)])
ChecksumEntry(d, algorithm) ==
    TTable([uri |-> TString(d.uri),
            checksum |-> TString(<<algorithm, ":">> \o d.sha256)])
Manifest(items) ==
    TTable([metadata |-> TTable([dependencies |-> TArray(items)])])

\* str::parse::<toml::Value> of a manifest text: the texts are named, and a
\* text that is not TOML has no value
Texts ==
    {"two", "one", "checksum", "none", "md5", "both", "neither", "no-uri",
     "integers", "no-metadata", "data-uri", "relative-uri", "directory-uri",
     "collide", "not toml"}

is_toml(text) == text # "not toml"

toml_parse(text) ==
    CASE text = "two" -> Manifest(<<Entry(DepA), Entry(DepB)>>)
      [] text = "one" -> Manifest(<<Entry(DepA)>>)
      [] text = "checksum" -> Manifest(<<ChecksumEntry(DepA, "sha256")>>)
      [] text = "collide" -> Manifest(<<Entry(DepA), Entry(DepC)>>)
      [] text = "none" -> Manifest(<<>>)
      [] text = "md5" -> Manifest(<<ChecksumEntry(DepA, "md5")>>)
      [] text = "both" ->
           Manifest(<<TTable([uri |-> TString(UriA),
                              sha256 |-> TString(DepA.sha256),
                              checksum |-> TString(<<"sha256", ":">> \o DepA.sha256)])>>)
      [] text = "neither" -> Manifest(<<TTable([uri |-> TString(UriA)])>>)
      [] text = "no-uri" -> Manifest(<<TTable([sha256 |-> TString(DepA.sha256)])>>)
      [] text = "integers" -> Manifest(<<TInteger, TInteger>>)
      [] text = "no-metadata" -> TTable([foo |-> TString(<<"bar">>)])
      [] text = "data-uri" ->
           Manifest(<<Entry(Dependency(DepA.sha256, <<"data:", "text/plain,Hello">>)),
                      Entry(DepB)>>)
      [] text = "relative-uri" ->
           Manifest(<<Entry(Dependency(DepA.sha256, <<"fake">>))>>)
      [] text = "directory-uri" ->
           Manifest(<<Entry(Dependency(DepA.sha256,
                                       <<"https:", "//", "example.com", "/">>))>>)

\* a manifest source: the BUILDPACK and TOML arguments, what the disk holds
\* at the TOML path (None: no such file) and what the GET of the manifest
\* url returns (None: the request fails)
Source(buildpack, toml_file, on_disk, served) ==
    [buildpack |-> buildpack, toml_file |-> toml_file, on_disk |-> on_disk,
     served |-> served]

parse_buildpack_toml_from_disk(src) ==
    IF ~src.on_disk.some THEN ParsePanic("called Result::unwrap() on an Err value")
    ELSE IF ~is_toml(src.on_disk.v) THEN ParseErr("TOML parse error")
    ELSE transform(toml_parse(src.on_disk.v))

parse_buildpack_toml_from_network(src) ==
    IF ~src.served.some THEN ParseErr("failed on url")
    ELSE IF ~is_toml(src.served.v) THEN ParseErr("TOML parse error")
    ELSE transform(toml_parse(src.served.v))

\* the choice of parser in DependencyMappingCommandHandler::handle
parse_manifest(src) ==
    IF src.buildpack THEN parse_buildpack_toml_from_network(src)
    ELSE IF src.toml_file THEN parse_buildpack_toml_from_disk(src)
    ELSE ParseErr("must have a buildpack.toml file")

\* the key=value arguments the handler builds from the dependencies whose
\* filename can be derived
RECURSIVE deps_args(_, _)
deps_args(deps, binding_name) ==
    IF Len(deps) = 0 THEN <<>>
    ELSE
    LET d == Head(deps)
        name == filename(d)
    IN  IF name.ok
        THEN <<d.sha256 \o <<"=", "file:///bindings/">> \o binding_name
                 \o <<"/binaries/">> \o name.v>>
             \o deps_args(Tail(deps), binding_name)
        ELSE deps_args(Tail(deps), binding_name)

----------------------------------------------------------------------------
(* The arguments the invocations are drawn from *)

Types == {<<"ta">>, <<"tb">>}
Names == {<<"ta">>}
Confirmers == {"Always", "Never", "Console"}

TypeOpts == {None} \cup {Some(t) : t \in Types}
NameOpts == {None} \cup {Some(n) : n \in Names}

K1 == <<"k1">>
K2 == <<"k2">>

\* key=value arguments: literal values, @path values, a key named type,
\* a pair without "=" and a pair with two
Pairs ==
    { <<"k1", "=", "v1">>, <<"k1", "=", "v2">>, <<"k2", "=", "v2">>,
      <<"k1", "=", "@", "src">>, <<"k1", "=", "@", "missing">>,
      <<"type", "=", "v1">>, <<"k1">>, <<"k2", "=", "v1", "=", "v2">> }

DeleteKeys == {K1, K2, TypeFile}

SeqsUpTo(S, n) == UNION {[1..m -> S] : m \in 0..n}

KeyLists == SeqsUpTo(DeleteKeys, MaxKeys)

\* the lines a user types at the console
Lines == {ReadOk(<<"y", "\n">>), ReadOk(<<"n", "o", "\n">>)}

\* the standard input of an invocation that may prompt up to n times
Stdins(confirmer, n) ==
    IF confirmer = "Console" THEN [1..n -> Lines] ELSE {<<>>}

\* the binding type, and the default binding name, of the dependency mappings
DMType == <<"dependency-mapping">>

\* the manifest sources of the dependency-mapping command: a TOML path with
\* each text or no file behind it, a buildpack id whose manifest is served or
\* not, and neither argument
Sources ==
    {Source(FALSE, TRUE, Some(t), None) : t \in Texts}
        \cup {Source(FALSE, TRUE, None, None),
              Source(TRUE, FALSE, None, Some("two")),
              Source(TRUE, FALSE, None, None),
              Source(FALSE, FALSE, None, None)}

\* what the server may answer to the GET of a dependency: no answer, the
\* artifact the digest was taken of, or other bytes
Responses(d) ==
    {Refused, Served(Corrupt)}
        \cup {Served(b) : b \in {c \in {BodyA, BodyB} : sha256_hex(c) = d.sha256}}

\* the arguments of the store invocations that run between dependency mappings
DMNameOpts == {None}
DMPairs == {<<"k1", "=", "v1">>}
DMKeyLists == {<<>>, <<TypeFile>>, <<DepA.sha256>>}

----------------------------------------------------------------------------
(* The invocations *)

NoCall ==
    [op |-> "none", self |-> BindingProcessor_new(None, None, "Never"),
     arg |-> <<>>, ok |-> TRUE, err |-> "", asked |-> <<>>, panicked |-> FALSE]

Called(op, self, arg, r) ==
    [op |-> op, self |-> self, arg |-> arg, ok |-> r.ok, err |-> r.err,
     asked |-> r.asked, panicked |-> FALSE]

\* the process died of a panic on its main thread
Panicked(op, self, arg, msg) ==
    [op |-> op, self |-> self, arg |-> arg, ok |-> FALSE, err |-> msg,
     asked |-> <<>>, panicked |-> TRUE]

NoDependency == Dependency(<<>>, <<>>)

NoFetch ==
    [binding_name |-> <<>>, deps |-> <<>>, max_simult |-> 0, joined |-> 0]

Unlocked == [holder |-> 0, poisoned |-> FALSE]

NotFetching ==
    /\ dm = NoFetch
    /\ queue = <<>>
    /\ mutex = Unlocked
    /\ workers = <<>>
    /\ requests = <<>>

Init ==
    /\ fs = EmptyFs
    /\ pre = EmptyFs
    /\ call = NoCall
    /\ pc = "idle"
    /\ NotFetching

\* one BindingProcessor::add_binding call with arguments of the given sets
AddBindingOf(types, names, confirmers, pairs) ==
    /\ pc = "idle"
    /\ \E t \in types, n \in names, c \in confirmers, kv \in pairs :
         \E stdin \in Stdins(c, 1) :
           LET self == BindingProcessor_new(t, n, c)
               r == add_binding(fs, self, kv, stdin)
           IN  /\ fs' = r.fs
               /\ pre' = fs
               /\ call' = Called("add_binding", self, kv, r)
               /\ pc' = "done"
    /\ UNCHANGED fetchVars

\* one BindingProcessor::delete_bindings call; the name is always given
DeleteBindingsOf(names, confirmers, keyLists) ==
    /\ pc = "idle"
    /\ \E n \in names, c \in confirmers, keys \in keyLists :
         \E stdin \in Stdins(c, IF Len(keys) = 0 THEN 1 ELSE Len(keys)) :
           LET self == BindingProcessor_new(None, Some(n), c)
               r == delete_bindings(fs, self, keys, stdin)
           IN  /\ fs' = r.fs
               /\ pre' = fs
               /\ call' = Called("delete_bindings", self, keys, r)
               /\ pc' = "done"
    /\ UNCHANGED fetchVars

AddBinding == AddBindingOf(TypeOpts, NameOpts, Confirmers, Pairs)

DeleteBindings == DeleteBindingsOf(Types, Confirmers, KeyLists)

\* the invocation is over; the next one starts from the tree it left
Return ==
    /\ pc = "done"
    /\ pc' = "idle"
    /\ pre' = fs
    /\ call' = NoCall
    /\ UNCHANGED fs
    /\ dm' = NoFetch
    /\ queue' = <<>>
    /\ mutex' = Unlocked
    /\ workers' = <<>>
    /\ requests' = <<>>

Next == AddBinding \/ DeleteBindings \/ Return

Spec == Init /\ [][Next]_vars

----------------------------------------------------------------------------
(* The dependency-mapping command.  DependencyMappingCommandHandler::handle *)
(* runs up to the spawning of the workers in one step; each worker takes   *)
(* the lock and pops, then downloads with the guard alive; the main thread *)
(* joins the handles in order and then adds the bindings.                  *)

\* fs::create_dir_all(binding_path.join("binaries"))
create_binaries_dir(f, p) ==
    LET made == create_dir_all(f, p)
    IN  IF BinariesDir \in DOMAIN made.dirs[p].files
        THEN Err("File exists", f)
        ELSE Ok([made EXCEPT !.dirs[p].binaries.exists = TRUE])

\* Arg::action(ArgAction::SetTrue): the flag holds true when it is given on
\* the command line and false, as a default value, when it is not
SetTrue(given) ==
    [v |-> given, source |-> IF given THEN "CommandLine" ELSE "DefaultValue"]

\* ArgMatches::contains_id: whether the argument has a value, whatever its
\* source
contains_id(arg) == arg.source \in {"CommandLine", "DefaultValue"}

spawn(max_simult) == [i \in 1..max_simult |-> [at |-> "lock", d |-> NoDependency]]

\* handle up to the end of the spawn loop of download_dependencies, with
\* arguments of the given sets
DependencyMappingOf(sources, names, pools) ==
    /\ pc = "idle"
    /\ \E src \in sources, n \in names, force \in BOOLEAN,
          max_simult \in pools :
         LET binding_name == unwrap_or(n, DMType)
             confirmer == IF contains_id(SetTrue(force)) THEN "Always" ELSE "Console"
             btp == BindingProcessor_new(Some(DMType), Some(binding_name), confirmer)
             deps == parse_manifest(src)
             made == create_binaries_dir(fs, binding_name)
         IN  /\ pre' = fs
             /\ requests' = <<>>
             /\ mutex' = Unlocked
             /\ IF deps.kind = "panic"
                THEN /\ call' = Panicked("dependency_mapping", btp, src, deps.msg)
                     /\ pc' = "done"
                     /\ UNCHANGED <<fs, dm, queue, workers>>
                ELSE IF deps.kind = "err"
                THEN /\ call' = Called("dependency_mapping", btp, src,
                                       WithAsked(Err(deps.msg, fs), <<>>))
                     /\ pc' = "done"
                     /\ UNCHANGED <<fs, dm, queue, workers>>
                ELSE IF ~made.ok
                THEN /\ call' = Called("dependency_mapping", btp, src,
                                       WithAsked(made, <<>>))
                     /\ pc' = "done"
                     /\ UNCHANGED <<fs, dm, queue, workers>>
                ELSE /\ call' = Called("dependency_mapping", btp, src,
                                       WithAsked(made, <<>>))
                     /\ pc' = "fetching"
                     /\ fs' = made.fs
                     /\ dm' = [binding_name |-> binding_name, deps |-> deps.deps,
                               max_simult |-> max_simult, joined |-> 0]
                     /\ queue' = deps.deps
                     /\ workers' = spawn(max_simult)

DependencyMapping == DependencyMappingOf(Sources, DMNameOpts, 0..MaxSimult)

\* a variant in which lock() on a poisoned mutex blocks instead of failing
WorkerLock_blocks_on_poison(i) ==
    /\ pc = "fetching"
    /\ workers[i].at = "lock"
    /\ mutex.holder = 0
    /\ ~mutex.poisoned
    /\ IF Len(queue) = 0
       THEN /\ workers' = [workers EXCEPT ![i].at = "exited"]
            /\ UNCHANGED <<queue, mutex>>
       ELSE /\ workers' = [workers EXCEPT ![i] = [at |-> "download",
                                                  d |-> queue[Len(queue)]]]
            /\ queue' = SubSeq(queue, 1, Len(queue) - 1)
            /\ mutex' = [mutex EXCEPT !.holder = i]
    /\ UNCHANGED <<fs, pre, call, pc, dm, requests>>

\* a variant that takes the last element and removes the first
WorkerLock_removes_first(i) ==
    /\ pc = "fetching"
    /\ workers[i].at = "lock"
    /\ mutex.holder = 0
    /\ IF mutex.poisoned
       THEN /\ workers' = [workers EXCEPT ![i].at = "panicked"]
            /\ UNCHANGED <<queue, mutex>>
       ELSE IF Len(queue) = 0
       THEN /\ workers' = [workers EXCEPT ![i].at = "exited"]
            /\ UNCHANGED <<queue, mutex>>
       ELSE /\ workers' = [workers EXCEPT ![i] = [at |-> "download",
                                                  d |-> queue[Len(queue)]]]
            /\ queue' = Tail(queue)
            /\ mutex' = [mutex EXCEPT !.holder = i]
    /\ UNCHANGED <<fs, pre, call, pc, dm, requests>>

\* a variant in which the guard is dropped as soon as the dependency is popped
WorkerLock_drops_guard(i) ==
    /\ pc = "fetching"
    /\ workers[i].at = "lock"
    /\ mutex.holder = 0
    /\ IF mutex.poisoned
       THEN /\ workers' = [workers EXCEPT ![i].at = "panicked"]
            /\ UNCHANGED <<queue, mutex>>
       ELSE IF Len(queue) = 0
       THEN /\ workers' = [workers EXCEPT ![i].at = "exited"]
            /\ UNCHANGED <<queue, mutex>>
       ELSE /\ workers' = [workers EXCEPT ![i] = [at |-> "download",
                                                  d |-> queue[Len(queue)]]]
            /\ queue' = SubSeq(queue, 1, Len(queue) - 1)
            /\ UNCHANGED mutex
    /\ UNCHANGED <<fs, pre, call, pc, dm, requests>>

\* a variant in which a worker ends its loop while one dependency is queued
WorkerLock_leaves_last(i) ==
    /\ pc = "fetching"
    /\ workers[i].at = "lock"
    /\ mutex.holder = 0
    /\ IF mutex.poisoned
       THEN /\ workers' = [workers EXCEPT ![i].at = "panicked"]
            /\ UNCHANGED <<queue, mutex>>
       ELSE IF Len(queue) <= 1
       THEN /\ workers' = [workers EXCEPT ![i].at = "exited"]
            /\ UNCHANGED <<queue, mutex>>
       ELSE /\ workers' = [workers EXCEPT ![i] = [at |-> "download",
                                                  d |-> queue[Len(queue)]]]
            /\ queue' = SubSeq(queue, 1, Len(queue) - 1)
            /\ mutex' = [mutex EXCEPT !.holder = i]
    /\ UNCHANGED <<fs, pre, call, pc, dm, requests>>

\* deps.lock().expect("unable to get lock").pop(): a poisoned mutex panics the
\* worker, an empty vector ends its loop, otherwise the last element is taken
\* and the guard stays alive through the loop body
WorkerLock(i) ==
    /\ pc = "fetching"
    /\ workers[i].at = "lock"
    /\ mutex.holder = 0
    /\ IF mutex.poisoned
       THEN /\ workers' = [workers EXCEPT ![i].at = "panicked"]
            /\ UNCHANGED <<queue, mutex>>
       ELSE IF Len(queue) = 0
       THEN /\ workers' = [workers EXCEPT ![i].at = "exited"]
            /\ UNCHANGED <<queue, mutex>>
       ELSE /\ workers' = [workers EXCEPT ![i] = [at |-> "download",
                                                  d |-> queue[Len(queue)]]]
            /\ queue' = SubSeq(queue, 1, Len(queue) - 1)
            /\ mutex' = [mutex EXCEPT !.holder = i]
    /\ UNCHANGED <<fs, pre, call, pc, dm, requests>>

\* a variant of the loop body that adds the binding of a dependency as soon
\* as its download has succeeded
WorkerDownload_adds_binding(i) ==
    /\ pc = "fetching"
    /\ workers[i].at = "download"
    /\ \E response \in Responses(workers[i].d) :
         LET r == download(workers[i].d, fs, dm.binding_name, response)
             added == add_bindings(r.fs, call.self,
                                   deps_args(<<workers[i].d>>, dm.binding_name),
                                   <<>>, <<>>)
         IN  /\ fs' = IF r.ok THEN added.fs ELSE r.fs
             /\ requests' = IF r.requested
                            THEN Append(requests, workers[i].d.uri)
                            ELSE requests
             /\ IF r.ok
                THEN /\ workers' = [workers EXCEPT ![i] = [at |-> "lock",
                                                           d |-> NoDependency]]
                     /\ mutex' = [mutex EXCEPT !.holder = 0]
                ELSE /\ workers' = [workers EXCEPT ![i].at = "panicked"]
                     /\ mutex' = [holder |-> 0, poisoned |-> TRUE]
    /\ UNCHANGED <<pre, call, pc, dm, queue>>

\* the loop body: d.download(..); an Err panics the worker, and the guard it
\* drops while panicking poisons the mutex
WorkerDownload(i) ==
    /\ pc = "fetching"
    /\ workers[i].at = "download"
    /\ \E response \in Responses(workers[i].d) :
         LET r == download(workers[i].d, fs, dm.binding_name, response)
         IN  /\ fs' = r.fs
             /\ requests' = IF r.requested
                            THEN Append(requests, workers[i].d.uri)
                            ELSE requests
             /\ IF r.ok
                THEN /\ workers' = [workers EXCEPT ![i] = [at |-> "lock",
                                                           d |-> NoDependency]]
                     /\ mutex' = [mutex EXCEPT !.holder = 0]
                ELSE /\ workers' = [workers EXCEPT ![i].at = "panicked"]
                     /\ mutex' = [holder |-> 0, poisoned |-> TRUE]
    /\ UNCHANGED <<pre, call, pc, dm, queue>>

\* a variant of the join loop that goes past a panicked worker
JoinWorker_ignores_panic ==
    /\ pc = "fetching"
    /\ dm.joined < dm.max_simult
    /\ workers[dm.joined + 1].at \in {"exited", "panicked"}
    /\ dm' = [dm EXCEPT !.joined = dm.joined + 1]
    /\ UNCHANGED <<fs, pre, call, pc, queue, mutex, workers, requests>>

\* handle.join() of the next handle: a worker that ended normally lets the
\* loop go on, a panicked one makes download_dependencies return its Err
JoinWorker ==
    /\ pc = "fetching"
    /\ dm.joined < dm.max_simult
    /\ LET handle == dm.joined + 1
       IN  \/ /\ workers[handle].at = "exited"
              /\ dm' = [dm EXCEPT !.joined = handle]
              /\ UNCHANGED <<call, pc>>
           \/ /\ workers[handle].at = "panicked"
              /\ call' = [call EXCEPT !.ok = FALSE, !.err = "thread panic"]
              /\ pc' = "done"
              /\ UNCHANGED dm
    /\ UNCHANGED <<fs, pre, queue, mutex, workers, requests>>

\* every handle is joined: download_dependencies returns Ok, and handle
\* builds the arguments and adds the bindings; the user answers the prompts
FinishMapping ==
    /\ pc = "fetching"
    /\ dm.joined = dm.max_simult
    /\ \E stdin \in Stdins(call.self.confirmer, Len(dm.deps)) :
         LET r == add_bindings(fs, call.self,
                               deps_args(dm.deps, dm.binding_name), stdin, <<>>)
         IN  /\ fs' = r.fs
             /\ call' = Called(call.op, call.self, call.arg, r)
             /\ pc' = "done"
    /\ UNCHANGED <<pre, dm, queue, mutex, workers, requests>>

\* the store invocations that run between dependency mappings: another
\* binding is added, the mapping binding is deleted by key or as a whole
DMAddBinding == AddBindingOf({Some(<<"ta">>)}, {None}, {"Always"}, DMPairs)

DMDeleteBindings == DeleteBindingsOf({DMType}, {"Always", "Console"}, DMKeyLists)

NextDM ==
    \/ DependencyMapping
    \/ \E i \in DOMAIN workers : WorkerLock(i)
    \/ \E i \in DOMAIN workers : WorkerDownload(i)
    \/ JoinWorker
    \/ FinishMapping
    \/ DMAddBinding
    \/ DMDeleteBindings
    \/ Return

SpecDM == Init /\ [][NextDM]_vars

----------------------------------------------------------------------------
(* transform on its own: the documents it is given are built from every    *)
(* shape of entry (each field absent, of the right type or of another      *)
(* type) and every shape of the tables above the entries.                  *)

Absent == [t |-> "absent"]

UriFields == {Absent, TString(UriA), TString(UriB), TInteger}
Sha256Fields == {Absent, TString(DepA.sha256), TInteger}
ChecksumFields ==
    {Absent, TString(<<"sha256", ":">> \o DepA.sha256),
     TString(<<"md5", ":">> \o DepA.sha256), TString(<<"1234">>), TInteger}

WithField(kv, k, v) == IF v = Absent THEN kv ELSE Put(kv, k, v)

EntryOf(uri, sha256, checksum) ==
    TTable(WithField(WithField(WithField(EmptyFn, "uri", uri),
                               "sha256", sha256), "checksum", checksum))

Entries ==
    {TInteger}
        \cup {EntryOf(u, h, c) :
                 u \in UriFields, h \in Sha256Fields, c \in ChecksumFields}

Documents ==
    {Manifest(items) : items \in SeqsUpTo(Entries, MaxEntries)}
        \cup {TString(<<"bar">>),
              TTable([foo |-> TString(<<"bar">>)]),
              TTable([metadata |-> TString(<<"bar">>)]),
              TTable([metadata |-> TTable([configurations |-> TArray(<<>>)])]),
              TTable([metadata |-> TTable([dependencies |-> TString(<<"foo">>)])])}

\* one call of transform: its result is what the caller of the parse gets,
\* or the panic the process dies of
Transform ==
    /\ pc = "idle"
    /\ \E toml \in Documents :
         LET r == transform(toml)
         IN  /\ call' = [op |-> "transform", self |-> NoCall.self, arg |-> toml,
                         ok |-> r.kind = "ok", err |-> r.msg, asked |-> <<>>,
                         panicked |-> r.kind = "panic"]
             /\ dm' = [NoFetch EXCEPT !.deps = r.deps]
    /\ pc' = "done"
    /\ pre' = fs
    /\ UNCHANGED <<fs, queue, mutex, workers, requests>>

NextParse == Transform \/ Return

SpecParse == Init /\ [][NextParse]_vars

----------------------------------------------------------------------------
(* The downloads of the worker pool piece by piece: Dependency::download   *)
(* opens the destination and sends the GET in one step, and io::copy       *)
(* writes the body one piece at a time at the position of its own file     *)
(* handle.                                                                 *)

\* a write of piece at position offset of a file: a position past the end
\* leaves a hole of zero bytes
write_at(content, offset, piece) ==
    [j \in 1..(IF Len(content) > offset THEN Len(content) ELSE offset + 1) |->
        IF j = offset + 1 THEN piece
        ELSE IF j <= Len(content) THEN content[j]
        ELSE "\\0"]

\* download up to agent.get(..).call(): requested says that the GET was
\* sent, copying that a body is there to copy
download_open(d, f, binding_path, response) ==
    LET matches == checksum_matches(d, f, binding_path)
        name == filename(d).v
        opened(ok, err, g, requested, copying) ==
            [ok |-> ok, err |-> err, fs |-> g, requested |-> requested,
             copying |-> copying]
    IN  IF ~matches.ok THEN opened(FALSE, matches.err, f, FALSE, FALSE)
        ELSE IF matches.v THEN opened(TRUE, "", f, FALSE, FALSE)
        ELSE IF ~(binding_path \in DOMAIN f.dirs /\ f.dirs[binding_path].binaries.exists)
                \/ name = <<>>
        THEN opened(FALSE, "cannot open file", f, FALSE, FALSE)
        ELSE
        LET created == [f EXCEPT !.dirs[binding_path].binaries.files =
                                     Put(@, name, <<>>)]
        IN  IF ~response.ok
            THEN opened(FALSE, "request failed", created, TRUE, FALSE)
            ELSE opened(TRUE, "", created, TRUE, TRUE)

\* the manifests of the piecewise fetches: one and two dependencies, and two
\* dependencies stored under one filename
FetchSources ==
    {Source(FALSE, TRUE, Some(t), None) : t \in {"one", "two", "collide"}}

FetchMapping == DependencyMappingOf(FetchSources, DMNameOpts, 0..MaxSimult)

\* the loop body up to the GET of d.download(..)
WorkerOpen(i) ==
    /\ pc = "fetching"
    /\ workers[i].at = "download"
    /\ \E response \in Responses(workers[i].d) :
         LET r == download_open(workers[i].d, fs, dm.binding_name, response)
         IN  /\ fs' = r.fs
             /\ requests' = IF r.requested
                            THEN Append(requests, workers[i].d.uri)
                            ELSE requests
             /\ IF ~r.ok
                THEN /\ workers' = [workers EXCEPT ![i].at = "panicked"]
                     /\ mutex' = [holder |-> 0, poisoned |-> TRUE]
                ELSE IF r.copying
                THEN /\ workers' = [workers EXCEPT ![i] =
                                       [at |-> "copy", d |-> workers[i].d,
                                        body |-> response.body, written |-> 0]]
                     /\ UNCHANGED mutex
                ELSE /\ workers' = [workers EXCEPT ![i] = [at |-> "lock",
                                                           d |-> NoDependency]]
                     /\ mutex' = [mutex EXCEPT !.holder = 0]
    /\ UNCHANGED <<pre, call, pc, dm, queue>>

\* std::io::copy: the next piece of the body is written; after the last one
\* download returns Ok and the guard is dropped at the end of the loop body
WorkerCopy(i) ==
    /\ pc = "fetching"
    /\ workers[i].at = "copy"
    /\ LET w == workers[i]
           name == filename(w.d).v
       IN  /\ fs' = [fs EXCEPT !.dirs[dm.binding_name].binaries.files[name] =
                                   write_at(@, w.written, w.body[w.written + 1])]
           /\ IF w.written + 1 < Len(w.body)
              THEN /\ workers' = [workers EXCEPT ![i].written = w.written + 1]
                   /\ UNCHANGED mutex
              ELSE /\ workers' = [workers EXCEPT ![i] = [at |-> "lock",
                                                         d |-> NoDependency]]
                   /\ mutex' = [mutex EXCEPT !.holder = 0]
    /\ UNCHANGED <<pre, call, pc, dm, queue, requests>>

NextFetch ==
    \/ FetchMapping
    \/ \E i \in DOMAIN workers : WorkerLock(i)
    \/ \E i \in DOMAIN workers : WorkerOpen(i)
    \/ \E i \in DOMAIN workers : WorkerCopy(i)
    \/ JoinWorker
    \/ FinishMapping
    \/ Return

SpecFetch == Init /\ [][NextFetch]_vars

\* the step of the main thread after the last join: FinishMapping is the only
\* action that takes it, and it can always be taken
Returns == pc = "fetching" /\ dm.joined = dm.max_simult /\ pc' = "done"

\* the threads are scheduled: a worker that can take the lock, send its
\* request or write the next piece does so, every download attempt comes to
\* an end, and the main thread goes on when the handle it joins has ended
FetchFairness ==
    /\ \A i \in 1..MaxSimult :
          /\ WF_vars(i \in DOMAIN workers /\ WorkerLock(i))
          /\ WF_vars(i \in DOMAIN workers /\ WorkerOpen(i))
          /\ WF_vars(i \in DOMAIN workers /\ WorkerCopy(i))
    /\ WF_vars(JoinWorker)
    /\ WF_pc(Returns)

SpecFetchLive == SpecFetch /\ FetchFairness

----------------------------------------------------------------------------
(* The add command on lists of pairs, and on values that name a file: one  *)
(* outside the bindings root, one that does not exist, and files of the    *)
(* binding ta itself                                                       *)

InRoot(p, k) == <<Root>> \o p \o <<"/">> \o k

FilePairs ==
    { <<"k1", "=", "@", "src">>,
      <<"k2", "=", "@", "missing">>,
      K1 \o <<"=", "@">> \o InRoot(<<"ta">>, K1),
      K2 \o <<"=", "@">> \o InRoot(<<"ta">>, K1),
      K2 \o <<"=", "@">> \o InRoot(<<"ta">>, TypeFile) }

ListPairs ==
    { <<"k1", "=", "v1">>, <<"k2", "=", "v2">>, <<"k1">>,
      <<"k2", "=", "@", "missing">> }

PairLists == SeqsUpTo(ListPairs, MaxPairs)

\* one add_binding call whose value names a file
AddFile ==
    AddBindingOf({Some(t) : t \in Types}, {Some(<<"ta">>)}, Confirmers, FilePairs)

\* one BindingProcessor::add_bindings call on the binding ta; call.arg holds
\* the pairs and the standard input
AddBindings ==
    /\ pc = "idle"
    /\ \E t \in Types, c \in Confirmers, kvs \in PairLists :
         \E stdin \in Stdins(c, Len(kvs)) :
           LET self == BindingProcessor_new(Some(t), Some(<<"ta">>), c)
               r == add_bindings(fs, self, kvs, stdin, <<>>)
           IN  /\ fs' = r.fs
               /\ pre' = fs
               /\ call' = Called("add_bindings", self,
                                 [pairs |-> kvs, stdin |-> stdin], r)
               /\ pc' = "done"
    /\ UNCHANGED fetchVars

NextAdd == AddFile \/ AddBindings \/ Return

SpecAdd == Init /\ [][NextAdd]_vars

----------------------------------------------------------------------------
(* BindingConfirmers::confirm alone, on every line of up to MaxLine        *)
(* characters that read_line can yield, read with or without an error       *)

LineChars == {"y", "Y", "e", "s", "S", "n", " ", "\n"}

\* an error of read_line can leave the text read so far in the buffer
ReadResults ==
    {[ok |-> o, text |-> t] : o \in BOOLEAN, t \in SeqsUpTo(LineChars, MaxLine)}

\* one confirm: call.arg is the standard input, call.asked the lines the
\* confirmer read of it, call.ok the answer
Confirm ==
    /\ pc = "idle"
    /\ \E c \in Confirmers, res \in ReadResults :
         LET stdin == <<res>>
         IN  call' = [op |-> "confirm",
                      self |-> BindingProcessor_new(None, None, c),
                      arg |-> stdin,
                      ok |-> confirm(c, read_line(stdin, 1)),
                      err |-> "",
                      asked |-> SubSeq(stdin, 1, lines_read(c)),
                      panicked |-> FALSE]
    /\ pc' = "done"
    /\ pre' = fs
    /\ UNCHANGED <<fs, dm, queue, mutex, workers, requests>>

NextConfirm == Confirm \/ Return

SpecConfirm == Init /\ [][NextConfirm]_vars

----------------------------------------------------------------------------
(* What the claims read of a returned invocation *)

AddDone == pc = "done" /\ call.op = "add_binding"
DeleteDone == pc = "done" /\ call.op = "delete_bindings"

\* a well-formed add: the binding type is given and the pair has an "="
AddParsed == AddDone /\ call.self.binding_type.some /\ split_once(call.arg, "=").some

AddPath == unwrap_or(call.self.binding_name, call.self.binding_type.v)
AddKey == split_once(call.arg, "=").key
AddValue == split_once(call.arg, "=").value
AddLiteral == ~starts_with(AddValue, "@")

DeletePath == call.self.binding_name.v

HasDir(f, p) == p \in DOMAIN f.dirs
HasFile(f, p, k) == HasDir(f, p) /\ k \in DOMAIN f.dirs[p].files
FileOf(f, p, k) == f.dirs[p].files[k]

----------------------------------------------------------------------------
(* C1..C3: overwrite protection, idempotent add, distinct keys coexist *)

\* C1: when the key file already exists, add_binding of key=v2 under the
\* Never policy returns an error and the key file keeps its content.
C1_NeverKeepsExistingKey ==
    (AddParsed /\ call.self.confirmer = "Never" /\ HasFile(pre, AddPath, AddKey))
        => /\ ~call.ok
           /\ HasFile(fs, AddPath, AddKey)
           /\ FileOf(fs, AddPath, AddKey) = FileOf(pre, AddPath, AddKey)

\* a Never add of k=v2 was refused on a key file holding another value
C1_Witness ==
    /\ AddParsed /\ call.self.confirmer = "Never"
    /\ HasFile(pre, AddPath, AddKey)
    /\ AddLiteral /\ AddValue # FileOf(pre, AddPath, AddKey)
    /\ ~call.ok
    /\ FileOf(fs, AddPath, AddKey) = FileOf(pre, AddPath, AddKey)

\* C2: under the Always policy add_binding of key=value (a literal value)
\* succeeds whether or not the key file exists, with the same or another
\* content, and afterwards the key file's bytes equal value.
C2_AlwaysOverwrites ==
    (AddParsed /\ call.self.confirmer = "Always" /\ AddLiteral)
        => /\ call.ok
           /\ HasFile(fs, AddPath, AddKey)
           /\ FileOf(fs, AddPath, AddKey) = AddValue

\* the same pair was added again under Always: the file held value already
C2_Witness ==
    /\ AddParsed /\ call.self.confirmer = "Always" /\ AddLiteral
    /\ HasFile(pre, AddPath, AddKey)
    /\ FileOf(pre, AddPath, AddKey) = AddValue
    /\ call.ok
    /\ FileOf(fs, AddPath, AddKey) = AddValue

\* C3: adding a (literal) key whose file does not exist yet succeeds under
\* every policy, no confirmer is consulted, the key file holds the value and
\* the other key files of the binding are unchanged.
C3_NewKeyNeedsNoConfirmation ==
    (AddParsed /\ AddLiteral /\ ~HasFile(pre, AddPath, AddKey))
        => /\ call.ok
           /\ call.asked = <<>>
           /\ HasFile(fs, AddPath, AddKey)
           /\ FileOf(fs, AddPath, AddKey) = AddValue
           /\ HasDir(pre, AddPath) =>
                \A k \in (DOMAIN pre.dirs[AddPath].files) \ {AddKey, TypeFile} :
                    HasFile(fs, AddPath, k)
                    /\ FileOf(fs, AddPath, k) = FileOf(pre, AddPath, k)

\* a second key was added under Never to a binding that has another key
C3_Witness ==
    /\ AddParsed /\ AddLiteral /\ call.self.confirmer = "Never"
    /\ HasDir(pre, AddPath) /\ ~HasFile(pre, AddPath, AddKey)
    /\ \E k \in (DOMAIN pre.dirs[AddPath].files) \ {AddKey, TypeFile} :
           HasFile(fs, AddPath, k) /\ FileOf(fs, AddPath, k) = FileOf(pre, AddPath, k)
    /\ call.ok
    /\ FileOf(fs, AddPath, AddKey) = AddValue

----------------------------------------------------------------------------
(* C4: the invariant of the binding directories *)

\* C4: in every state that a sequence of add, delete and dependency-mapping
\* invocations leaves (none of them is still running), each binding directory
\* that exists under the bindings root contains a type file.
C4_EveryBindingHasType ==
    pc \in {"idle", "done"}
        => \A p \in DOMAIN fs.dirs : TypeFile \in DOMAIN fs.dirs[p].files

----------------------------------------------------------------------------
(* C5, C6: the type file *)

\* C5: after any successful add_binding call, for every key name, the type
\* file of the binding contains exactly the binding type given to the call.
C5_TypeFileHoldsBindingType ==
    (AddDone /\ call.ok)
        => /\ HasFile(fs, AddPath, TypeFile)
           /\ FileOf(fs, AddPath, TypeFile) = call.self.binding_type.v

\* C6 as stated: once the type file is written (it holds a binding type), a
\* later add that writes another key into the binding leaves the content of
\* the type file unchanged.
C6_TypeFileNeverChanges ==
    (/\ AddDone /\ call.ok /\ AddKey # TypeFile
     /\ ~HasFile(pre, AddPath, AddKey)
     /\ HasFile(pre, AddPath, TypeFile)
     /\ FileOf(pre, AddPath, TypeFile) \in Types)
        => FileOf(fs, AddPath, TypeFile) = FileOf(pre, AddPath, TypeFile)

\* C6 as amended: a later add of another key leaves the content of the type
\* file unchanged when it is given the binding type the file holds; a
\* successful add given another binding type rewrites the file to that type.
C6_TypeFileFollowsCallType ==
    (AddParsed /\ HasFile(pre, AddPath, TypeFile) /\ AddKey # TypeFile)
        => /\ HasFile(fs, AddPath, TypeFile)
           /\ FileOf(pre, AddPath, TypeFile) = call.self.binding_type.v
                => FileOf(fs, AddPath, TypeFile) = FileOf(pre, AddPath, TypeFile)
           /\ call.ok => FileOf(fs, AddPath, TypeFile) = call.self.binding_type.v

\* a new key was written, with the type the file holds, next to the type file
C6_Witness ==
    /\ AddParsed /\ call.ok /\ AddKey # TypeFile
    /\ HasFile(pre, AddPath, TypeFile)
    /\ ~HasFile(pre, AddPath, AddKey)
    /\ FileOf(pre, AddPath, TypeFile) = call.self.binding_type.v
    /\ HasFile(fs, AddPath, AddKey)
    /\ FileOf(fs, AddPath, TypeFile) = FileOf(pre, AddPath, TypeFile)

----------------------------------------------------------------------------
(* C7..C10: delete_bindings *)

Range(s) == {s[i] : i \in 1..Len(s)}

\* the tree f without the files of binding p whose names are in K
WithoutFiles(f, p, K) ==
    IF HasDir(f, p)
    THEN [f EXCEPT !.dirs[p].files = [x \in (DOMAIN @) \ K |-> @[x]]]
    ELSE f

\* the listed keys that exist when the call starts
ListedExisting == {k \in Range(call.arg) : exists(pre, DeletePath, k)}

\* C7 as stated: delete_bindings under Never, for any key list and any
\* binding contents, returns an error and leaves every file in place.
C7_NeverDeleteFails ==
    (DeleteDone /\ call.self.confirmer = "Never")
        => ~call.ok /\ fs = pre

\* C7 as amended: delete_bindings under Never leaves every file in place for
\* any key list; it returns an error when the list is empty or names a key
\* that exists, and success (nothing is asked) when the list is non-empty and
\* none of its keys exists.
C7_NeverDeleteRemovesNothing ==
    (DeleteDone /\ call.self.confirmer = "Never")
        => /\ fs = pre
           /\ call.ok <=> (pre.home /\ call.arg # <<>> /\ ListedExisting = {})

\* a key-scoped delete under Never was refused on a key that exists
C7_Witness ==
    /\ DeleteDone /\ call.self.confirmer = "Never"
    /\ call.arg # <<>> /\ ListedExisting # {}
    /\ ~call.ok
    /\ fs = pre

\* C8: on an existing bindings root, delete_bindings with a non-empty key
\* list under Always returns success and removes exactly the listed key files
\* that exist: every other file, type included, keeps its content.
C8_AlwaysDeleteRemovesListedKeys ==
    (DeleteDone /\ call.self.confirmer = "Always" /\ call.arg # <<>> /\ pre.home)
        => /\ call.ok
           /\ fs = WithoutFiles(pre, DeletePath, Range(call.arg))

\* key1 of a binding with key1, key2 and type was deleted under Always
C8_Witness ==
    /\ DeleteDone /\ call.self.confirmer = "Always" /\ call.arg = <<K1>>
    /\ HasFile(pre, DeletePath, K1)
    /\ call.ok
    /\ ~HasFile(fs, DeletePath, K1)
    /\ HasFile(fs, DeletePath, K2) /\ HasFile(fs, DeletePath, TypeFile)
    /\ FileOf(fs, DeletePath, K2) = FileOf(pre, DeletePath, K2)
    /\ FileOf(fs, DeletePath, TypeFile) = FileOf(pre, DeletePath, TypeFile)

RECURSIVE Dedup(_)
Dedup(s) ==
    IF s = <<>> THEN <<>>
    ELSE <<Head(s)>> \o Dedup(SelectSeq(Tail(s), LAMBDA x : x # Head(s)))

\* the existing keys in the order the list names them first
ExistingInOrder ==
    Dedup(SelectSeq(call.arg, LAMBDA k : exists(pre, DeletePath, k)))

Declined(j) == ~call.asked[j].answer /\ \A m \in 1..(j - 1) : call.asked[m].answer

\* C10: in a key-scoped delete under the interactive policy, when the first i
\* existing keys are approved and the next one is declined, the call returns
\* an error at once: exactly those i key files are removed, the declined key
\* and every later key are untouched, and nothing more is asked.
C10_DeclineAbortsDelete ==
    (DeleteDone /\ call.self.confirmer = "Console" /\ call.arg # <<>>)
        => \A j \in 1..Len(call.asked) :
             Declined(j)
               => /\ ~call.ok
                  /\ call.err = "confirmation declined, exiting"
                  /\ Len(call.asked) = j
                  /\ j <= Len(ExistingInOrder)
                  /\ \A m \in 1..j :
                       call.asked[m].path = <<DeletePath, ExistingInOrder[m]>>
                  /\ fs = WithoutFiles(pre, DeletePath,
                                       {ExistingInOrder[m] : m \in 1..(j - 1)})

\* one key was approved and removed, the next one declined and kept
C10_Witness ==
    /\ DeleteDone /\ call.self.confirmer = "Console"
    /\ Len(call.arg) = 2 /\ Len(call.asked) = 2 /\ Declined(2)
    /\ ~call.ok
    /\ ~HasFile(fs, DeletePath, call.arg[1])
    /\ HasFile(fs, DeletePath, call.arg[2])

\* the confirmer approved the removal of the whole binding directory
Approved ==
    /\ Len(call.asked) = 1
    /\ call.asked[1] = Asked(<<DeletePath>>, TRUE)

\* C9: delete_bindings with an empty key list on an existing binding, under a
\* policy that approves, returns success and removes the whole binding
\* directory: the type file, every key file and the binaries subdirectory.
C9_EmptyListRemovesBinding ==
    (DeleteDone /\ call.arg = <<>> /\ HasDir(pre, DeletePath)
       /\ (call.self.confirmer = "Always"
           \/ (call.self.confirmer = "Console" /\ Approved)))
        => /\ call.ok
           /\ ~HasDir(fs, DeletePath)
           /\ fs.home
           /\ \A p \in (DOMAIN pre.dirs) \ {DeletePath} :
                HasDir(fs, p) /\ fs.dirs[p] = pre.dirs[p]

\* a binding with its type file, a key file and a downloaded file in its
\* binaries subdirectory was removed as a whole, next to another binding
C9_Witness ==
    /\ DeleteDone /\ call.arg = <<>> /\ Approved
    /\ HasFile(pre, DeletePath, TypeFile)
    /\ HasFile(pre, DeletePath, DepA.sha256)
    /\ pre.dirs[DeletePath].binaries.exists
    /\ DOMAIN pre.dirs[DeletePath].binaries.files # {}
    /\ (DOMAIN pre.dirs) \ {DeletePath} # {}
    /\ call.ok
    /\ ~HasDir(fs, DeletePath)

----------------------------------------------------------------------------
(* C11: a key-scoped delete keeps the binding directory *)

KeyFiles(f, p) == (DOMAIN f.dirs[p].files) \ {TypeFile}

\* C11: delete_bindings with a non-empty key list never removes a binding
\* directory, whatever it returns and even when it removes the last key
\* file of the binding: every directory that existed still exists.
C11_KeyScopedDeleteKeepsDirectory ==
    (DeleteDone /\ call.arg # <<>>)
        => \A p \in DOMAIN pre.dirs : HasDir(fs, p)

\* the last key file of a binding was removed and the directory is still there
C11_Witness ==
    /\ DeleteDone /\ call.arg # <<>> /\ call.ok
    /\ HasDir(pre, DeletePath) /\ KeyFiles(pre, DeletePath) # {}
    /\ HasDir(fs, DeletePath) /\ KeyFiles(fs, DeletePath) = {}

----------------------------------------------------------------------------
(* What the claims read of a dependency-mapping invocation *)

MappingRunning == pc = "fetching"
MappingDone == pc = "done" /\ call.op = "dependency_mapping"

\* download_dependencies was entered: the manifest parsed and binaries exists
Fetched == MappingDone /\ dm.binding_name # <<>>

\* download_dependencies returned Ok: every handle was joined
FetchOk == Fetched /\ dm.joined = dm.max_simult /\ call.err # "thread panic"
FetchErr == Fetched /\ call.err = "thread panic"

Deps == Range(dm.deps)

BinariesOf(f, p) ==
    IF HasDir(f, p) /\ f.dirs[p].binaries.exists
    THEN f.dirs[p].binaries.files
    ELSE EmptyFn

\* the destination of d holds content whose digest is the declared one
Satisfied(f, p, d) ==
    /\ filename(d).ok
    /\ filename(d).v \in DOMAIN BinariesOf(f, p)
    /\ sha256_hex(BinariesOf(f, p)[filename(d).v]) = d.sha256

Requested(d) == \E j \in 1..Len(requests) : requests[j] = d.uri

\* d was popped and its processing is over
Processed(d) ==
    /\ \A j \in 1..Len(queue) : queue[j] # d
    /\ \A i \in DOMAIN workers : workers[i].d # d

----------------------------------------------------------------------------
(* C12: the checksum short-circuit *)

\* no other dependency of the list is stored under the filename of d
Alone(d) == \A e \in Deps : filename(e) = filename(d) => e = d

\* C12: throughout a dependency mapping, for a dependency whose destination
\* file held content with the declared SHA-256 when the fetch started, no
\* GET is sent for its uri and the destination file keeps that content: it
\* is not created anew, truncated or rewritten.  (A file that two
\* dependencies share is the subject of C30.)
C12_SatisfiedDependencyNotFetched ==
    (MappingRunning \/ MappingDone)
        => \A d \in Deps :
             (Satisfied(pre, dm.binding_name, d) /\ Alone(d))
               => /\ ~Requested(d)
                  /\ Satisfied(fs, dm.binding_name, d)
                  /\ BinariesOf(fs, dm.binding_name)[filename(d).v]
                       = BinariesOf(pre, dm.binding_name)[filename(d).v]

\* a worker popped and processed a satisfied dependency, next to one that had
\* to be downloaded
C12_Witness ==
    /\ FetchOk /\ dm.max_simult >= 1
    /\ dm.deps = <<DepA, DepB>>
    /\ Satisfied(pre, dm.binding_name, DepA) /\ Processed(DepA)
    /\ ~Satisfied(pre, dm.binding_name, DepB) /\ Requested(DepB)
    /\ ~Requested(DepA)

----------------------------------------------------------------------------
(* C13: a successful fetch leaves every artifact in place *)

DistinctFilenames ==
    \A j, k \in 1..Len(dm.deps) :
        j # k => filename(dm.deps[j]) # filename(dm.deps[k])

\* C13: for dependencies with pairwise distinct filenames and a pool of at
\* least one worker, when download_dependencies has returned success every
\* dependency was popped and processed, and a file exists at
\* <binding>/binaries/<filename> for each of them, whatever the interleaving
\* of the workers and whatever the pool size.
C13_SuccessfulFetchHasEveryArtifact ==
    (FetchOk /\ dm.max_simult >= 1 /\ DistinctFilenames)
        => \A d \in Deps :
             /\ Processed(d)
             /\ filename(d).ok
             /\ filename(d).v \in DOMAIN BinariesOf(fs, dm.binding_name)

\* two workers fetched two dependencies, both requested, both files in place
C13_Witness ==
    /\ FetchOk /\ dm.max_simult = MaxSimult /\ DistinctFilenames
    /\ dm.deps = <<DepA, DepB>>
    /\ Requested(DepA) /\ Requested(DepB)
    /\ BinariesOf(fs, dm.binding_name)[filename(DepA).v] = BodyA
    /\ BinariesOf(fs, dm.binding_name)[filename(DepB).v] = BodyB

----------------------------------------------------------------------------
(* C14, C15: what download_dependencies returns, and when *)

Terminated(i) == workers[i].at \in {"exited", "panicked"}
SomePanicked == \E i \in DOMAIN workers : workers[i].at = "panicked"

\* C14: when download_dependencies has returned, with success or with an
\* error, every worker thread has terminated.
C14_ReturnsAfterAllWorkersTerminated ==
    Fetched => \A i \in DOMAIN workers : Terminated(i)

\* C15: once the processing of a dependency has failed (its worker panicked),
\* download_dependencies does not return success: when the command is over
\* it has returned the "thread panic" error to its caller, no binding was
\* added after it, and the process did not die of a panic.
C15_FailedDependencyIsReported ==
    /\ (MappingRunning /\ SomePanicked) => dm.joined < dm.max_simult
    /\ (Fetched /\ SomePanicked)
         => /\ ~call.ok
            /\ call.err = "thread panic"
            /\ ~call.panicked
            /\ call.asked = <<>>

\* one of two dependencies failed in a pool of two; the error was returned
C15_Witness ==
    /\ FetchErr /\ ~call.ok /\ ~call.panicked
    /\ Len(dm.deps) = 2 /\ dm.max_simult >= 2
    /\ \E i \in DOMAIN workers :
         workers[i].at = "panicked" /\ workers[i].d # NoDependency
    /\ \E d \in Deps : Requested(d) /\ Processed(d)

----------------------------------------------------------------------------
(* C16, C17: the workers and the lock *)

\* C16: a failed download stops only the worker that was processing it: a
\* worker panics only over a dependency it popped, and when the workers of a
\* pool of two or more have all ended and the fetch has reported the error,
\* the others have drained the queue.
C16_FailureStopsOnlyItsWorker ==
    /\ (MappingRunning \/ Fetched)
         => \A i \in DOMAIN workers :
              workers[i].at = "panicked" => workers[i].d # NoDependency
    /\ (FetchErr /\ dm.max_simult >= 2 /\ \A i \in DOMAIN workers : Terminated(i))
         => queue = <<>>

\* C17: the queue lock guards only the pop: no worker holds it while it
\* downloads a dependency, so that two workers can download at the same time.
C17_LockNotHeldWhileDownloading ==
    MappingRunning
        => \A i \in DOMAIN workers :
             workers[i].at = "download" => mutex.holder # i

----------------------------------------------------------------------------
(* C18: the binding keys are written after the whole fetch *)

FilesOf(f, p) == IF HasDir(f, p) THEN f.dirs[p].files ELSE EmptyFn

\* C18: in the dependency-mapping command no file of the binding directory
\* (no key derived from the manifest, nor the type file) is written while
\* download_dependencies runs, and none is written when the manifest does not
\* parse or the fetch returns an error: they are as they were before.
C18_KeysWrittenAfterFetch ==
    (MappingRunning \/ (MappingDone /\ (~Fetched \/ SomePanicked)))
        => \A p \in (DOMAIN fs.dirs) \cup (DOMAIN pre.dirs) :
             FilesOf(fs, p) = FilesOf(pre, p)

\* the fetch failed after one artifact was downloaded, and no key was written
C18_Witness ==
    /\ FetchErr
    /\ \E d \in Deps :
         /\ Requested(d) /\ Satisfied(fs, dm.binding_name, d)
         /\ ~Satisfied(pre, dm.binding_name, d)
         /\ d.sha256 \notin DOMAIN FilesOf(fs, dm.binding_name)
    /\ FilesOf(fs, dm.binding_name) = FilesOf(pre, dm.binding_name)

----------------------------------------------------------------------------
(* C19, C20: the validation of the manifest *)

TransformDone == pc = "done" /\ call.op = "transform"

\* the document has a metadata.dependencies array
HasEntries ==
    /\ call.arg.t = "table"
    /\ "metadata" \in DOMAIN call.arg.kv
    /\ call.arg.kv.metadata.t = "table"
    /\ "dependencies" \in DOMAIN call.arg.kv.metadata.kv
    /\ call.arg.kv.metadata.kv.dependencies.t = "array"

Items == call.arg.kv.metadata.kv.dependencies.items

Has(e, k) == k \in DOMAIN e.kv
IsString(e, k) == Has(e, k) /\ e.kv[k].t = "string"
HasUri(e) == e.t = "table" /\ IsString(e, "uri")

\* both sha256 and checksum, or neither
Ambiguous(e) == HasUri(e) /\ (Has(e, "sha256") <=> Has(e, "checksum"))

\* a checksum string that does not start with sha256:
Unsupported(e) ==
    /\ HasUri(e) /\ ~Has(e, "sha256") /\ IsString(e, "checksum")
    /\ LET c == e.kv["checksum"].s
       IN  ~(Len(c) >= 2 /\ c[1] = "sha256" /\ c[2] = ":")

Valid(e) ==
    /\ HasUri(e) /\ ~Ambiguous(e) /\ ~Unsupported(e)
    /\ Has(e, "sha256") => IsString(e, "sha256")
    /\ Has(e, "checksum") => IsString(e, "checksum")

\* the entry at j is the first one that is not valid
FirstInvalid(j) == ~Valid(Items[j]) /\ \A k \in 1..(j - 1) : Valid(Items[k])

\* C19: transform of a manifest whose first invalid entry (an entry with a
\* string uri) has both sha256 and checksum, or neither, fails with "sha256
\* or checksum field is required"; when that entry has a checksum whose
\* algorithm tag is not sha256 it fails with "only sha256 algorithm is
\* supported"; a manifest with any invalid entry produces no dependency list.
C19_ChecksumFieldsAreValidated ==
    (TransformDone /\ HasEntries)
        => \A j \in 1..Len(Items) :
             /\ ~Valid(Items[j]) => (~call.ok /\ dm.deps = <<>>)
             /\ (FirstInvalid(j) /\ Ambiguous(Items[j]))
                  => call.err = "sha256 or checksum field is required"
             /\ (FirstInvalid(j) /\ Unsupported(Items[j]))
                  => call.err = "only sha256 algorithm is supported"

\* a valid entry was followed by one with both sha256 and checksum
C19_Witness ==
    /\ TransformDone /\ HasEntries /\ Len(Items) = 2
    /\ Valid(Items[1]) /\ Ambiguous(Items[2])
    /\ Has(Items[2], "sha256") /\ Has(Items[2], "checksum")
    /\ ~call.ok /\ call.err = "sha256 or checksum field is required"
    /\ dm.deps = <<>>

\* C20: every validation failure of transform reaches the caller of the
\* parse as an error result: the process does not die of it.
C20_ValidationFailuresAreErrorResults ==
    (TransformDone /\ ~call.ok) => ~call.panicked

----------------------------------------------------------------------------
(* C21: what a successful parse returns *)

\* the hex digest an entry declares: its sha256, or its checksum after sha256:
DigestOf(e) ==
    IF Has(e, "sha256") THEN e.kv["sha256"].s
    ELSE SubSeq(e.kv["checksum"].s, 3, Len(e.kv["checksum"].s))

\* C21: transform of a manifest succeeds exactly when every entry is valid,
\* and then returns one Dependency per entry, in manifest order, with the
\* uri of the entry and the hex digest it declares; when an entry violates a
\* rule no dependency list is returned, even when the entries before it were
\* valid.
C21_ParseReturnsEntriesInOrder ==
    (TransformDone /\ HasEntries)
        => /\ call.ok <=> \A j \in 1..Len(Items) : Valid(Items[j])
           /\ call.ok
                => /\ Len(dm.deps) = Len(Items)
                   /\ \A j \in 1..Len(Items) :
                        dm.deps[j] = Dependency(DigestOf(Items[j]),
                                                Items[j].kv["uri"].s)
           /\ ~call.ok => dm.deps = <<>>

\* two valid entries with different uris, one with sha256 and one with
\* checksum, came back in manifest order
C21_Witness ==
    /\ TransformDone /\ HasEntries /\ call.ok
    /\ Len(Items) = 2
    /\ Has(Items[1], "checksum") /\ Has(Items[2], "sha256")
    /\ dm.deps = <<Dependency(DepA.sha256, UriB), Dependency(DepA.sha256, UriA)>>

----------------------------------------------------------------------------
(* C22: the pair and its separators *)

Separators(kv) == {i \in 1..Len(kv) : kv[i] = "="}

\* the positions before and after the first separator
FirstSeparator(kv) == CHOOSE i \in Separators(kv) : \A j \in Separators(kv) : i <= j

AddTyped == AddDone /\ call.self.binding_type.some

Target == IF call.self.binding_name.some
          THEN call.self.binding_name.v
          ELSE call.self.binding_type.v

\* C22 as stated: add_binding (the binding type given) of a pair that does
\* not contain exactly one "=", none or two or more, fails with the
\* malformed key/value error and writes nothing.
C22_NotExactlyOneSeparatorFails ==
    (AddTyped /\ Cardinality(Separators(call.arg)) # 1)
        => /\ ~call.ok
           /\ call.err = "could not parse key/value"
           /\ fs = pre

\* C22 as amended: a pair without "=" fails with the malformed key/value
\* error and nothing is written; a pair with one "=" or more is split at the
\* first one, and when its key is new the call succeeds and writes everything
\* after the first "=", later "=" included, as the value.
C22_PairSplitsAtFirstSeparator ==
    AddTyped
        => /\ Separators(call.arg) = {}
                => /\ ~call.ok
                   /\ call.err = "could not parse key/value"
                   /\ call.asked = <<>>
                   /\ fs = pre
           /\ Separators(call.arg) # {}
                => LET i == FirstSeparator(call.arg)
                       key == SubSeq(call.arg, 1, i - 1)
                       value == SubSeq(call.arg, i + 1, Len(call.arg))
                   IN  /\ call.err # "could not parse key/value"
                       /\ (~HasFile(pre, Target, key) /\ value[1] # "@")
                            => /\ call.ok
                               /\ HasFile(fs, Target, key)
                               /\ FileOf(fs, Target, key) = value

\* a pair with two "=" was added: the value holds the second one
C22_Witness ==
    /\ AddTyped /\ Cardinality(Separators(call.arg)) = 2
    /\ call.ok
    /\ \E i \in 1..Len(FileOf(fs, Target, K2)) : FileOf(fs, Target, K2)[i] = "="

----------------------------------------------------------------------------
(* C24, C26: what an add writes when the overwrite is declined, and where *)

AddDeclined ==
    /\ AddParsed
    /\ call.asked # <<>>
    /\ ~call.asked[1].answer

\* C24 as stated: after every add of a well-formed pair the type file of the
\* binding holds the binding type of the call, also when the overwrite of
\* the key was declined.
C24_TypeWrittenBeforeConfirmation ==
    (AddParsed /\ AddKey # TypeFile) =>
        /\ HasFile(fs, AddPath, TypeFile)
        /\ FileOf(fs, AddPath, TypeFile) = call.self.binding_type.v

\* C24, amended: the overwrite confirmation comes before any write.  When it
\* is declined the add fails and the whole tree, type file included, is as
\* before the call; when it is not declined (not needed, or approved) the
\* type file holds the binding type of the call, even if the key file then
\* cannot be written.
C24_TypeWrittenAfterConfirmation ==
    (AddParsed /\ AddKey # TypeFile) =>
        /\ AddDeclined =>
              /\ ~call.ok
              /\ call.err = "binding already exists"
              /\ fs = pre
        /\ ~AddDeclined =>
              /\ HasFile(fs, AddPath, TypeFile)
              /\ FileOf(fs, AddPath, TypeFile) = call.self.binding_type.v

\* the overwrite of ta/k1 was declined by an add given the type tb: ta/type
\* still holds ta
C24_Witness ==
    /\ AddDeclined
    /\ AddKey = K1
    /\ call.self.binding_type.v = <<"tb">>
    /\ AddPath = <<"ta">>
    /\ HasFile(pre, <<"ta">>, TypeFile)
    /\ FileOf(pre, <<"ta">>, TypeFile) = <<"ta">>
    /\ FileOf(fs, <<"ta">>, TypeFile) = <<"ta">>

\* C26: an add given a binding type writes into the directory of the binding
\* name when a name is given and of the binding type when it is not: every
\* other directory of the bindings root is absent or present as before, with
\* the content it had, and a successful add leaves the key file in that
\* directory.
C26_AddWritesOnlyItsDirectory ==
    AddTyped =>
        /\ \A p \in (DOMAIN fs.dirs) \cup (DOMAIN pre.dirs) :
              p # Target =>
                  /\ p \in DOMAIN fs.dirs
                  /\ p \in DOMAIN pre.dirs
                  /\ fs.dirs[p] = pre.dirs[p]
        /\ call.ok => HasFile(fs, Target, AddKey)

\* an add of type tb under the name ta created the directory ta, and no
\* directory tb
C26_Witness ==
    /\ AddTyped
    /\ call.ok
    /\ call.self.binding_name = Some(<<"ta">>)
    /\ call.self.binding_type = Some(<<"tb">>)
    /\ ~HasDir(pre, <<"ta">>)
    /\ HasFile(fs, <<"ta">>, AddKey)
    /\ ~HasDir(fs, <<"tb">>)

----------------------------------------------------------------------------
(* C25: the confirmation decision *)

ConfirmDone == pc = "done" /\ call.op = "confirm"

\* the text is y or yes in any letter case, with white space around it only
Affirmative(text) ==
    \E i \in 1..Len(text), j \in 1..Len(text) :
        /\ \A k \in 1..(i - 1) : text[k] \in WhiteSpace
        /\ \A k \in (j + 1)..Len(text) : text[k] \in WhiteSpace
        /\ text[i] \in {"y", "Y"}
        /\ \/ j = i
           \/ /\ j = i + 2
              /\ text[i + 1] \in {"e", "E"}
              /\ text[j] \in {"s", "S"}

\* C25: Always answers true and Never false without reading a line; the
\* console confirmer reads one line and answers true exactly when the read
\* succeeded and the line is y or yes, in any letter case and with white
\* space around it only.
C25_ConfirmationDecision ==
    ConfirmDone =>
        /\ call.self.confirmer = "Always" => call.ok /\ call.asked = <<>>
        /\ call.self.confirmer = "Never" => ~call.ok /\ call.asked = <<>>
        /\ call.self.confirmer = "Console" =>
              /\ call.asked = call.arg
              /\ call.ok <=> (call.arg[1].ok /\ Affirmative(call.arg[1].text))

\* the console confirmer approved on the line "YeS"
C25_Witness ==
    /\ ConfirmDone
    /\ call.self.confirmer = "Console"
    /\ call.ok
    /\ call.arg = <<ReadOk(<<"Y", "e", "S", "\n">>)>>

----------------------------------------------------------------------------
(* C23: add_bindings stops at the first failing pair *)

AddListDone == pc = "done" /\ call.op = "add_bindings"

\* the result of the i-th add_binding when each pair is added in turn to the
\* tree the pair before it left, with the prompts made up to and by it
RECURSIVE PairResult(_)
PairResult(i) ==
    IF i = 0
    THEN WithAsked(Ok(pre), <<>>)
    ELSE LET before == PairResult(i - 1)
             r == add_binding(before.fs, call.self, call.arg.pairs[i],
                              SubSeq(call.arg.stdin, Len(before.asked) + 1,
                                     Len(call.arg.stdin)))
         IN  WithAsked(r, before.asked \o r.asked)

FailingPairs == {i \in 1..Len(call.arg.pairs) : ~PairResult(i).ok}

\* the first pair that fails, one past the last pair when none does
FirstFailing ==
    IF FailingPairs = {}
    THEN Len(call.arg.pairs) + 1
    ELSE CHOOSE i \in FailingPairs : \A j \in FailingPairs : i <= j

PairKey(i) == split_once(call.arg.pairs[i], "=").key

\* C23: add_bindings adds the pairs in order and stops at the first pair
\* whose add_binding fails: it succeeds exactly when no pair fails; otherwise
\* it returns the error of the first failing pair, the tree is the one that
\* pair's add_binding left, with the key file of every pair before it in
\* place, and the prompts are those made up to that pair: no later pair
\* prompts or writes.
C23_AddBindingsStopsAtFirstFailure ==
    AddListDone =>
        LET n == Len(call.arg.pairs)
            j == FirstFailing
            last == PairResult(IF j <= n THEN j ELSE n)
        IN  /\ call.ok <=> j = n + 1
            /\ call.err = last.err
            /\ fs = last.fs
            /\ call.asked = last.asked
            /\ \A i \in 1..(j - 1) : HasFile(fs, <<"ta">>, PairKey(i))
            /\ \A i \in (j + 1)..n :
                  LET key == PairKey(i)
                  IN  (split_once(call.arg.pairs[i], "=").some
                         /\ \A h \in 1..j : PairKey(h) # key)
                      => /\ HasFile(fs, <<"ta">>, key) <=> HasFile(pre, <<"ta">>, key)
                         /\ HasFile(fs, <<"ta">>, key)
                              => FileOf(fs, <<"ta">>, key) = FileOf(pre, <<"ta">>, key)

\* the first of two pairs has no separator: the call failed with its error
\* and the key of the second pair is absent
C23_Witness ==
    /\ AddListDone
    /\ ~call.ok
    /\ call.arg.pairs = <<<<"k1">>, <<"k2", "=", "v2">>>>
    /\ call.err = "could not parse key/value"
    /\ ~HasFile(fs, <<"ta">>, K2)

----------------------------------------------------------------------------
(* C27: a value that names a file *)

\* the file the value of the add names, as it resolves before the call
AddSource == canonicalize(pre, trim_start_matches(AddValue, "@"))

\* the value is @path, path resolves to an existing regular file, and the
\* call was not stopped by a declined overwrite
AddFromFile ==
    /\ AddParsed
    /\ starts_with(AddValue, "@")
    /\ AddSource.ok
    /\ ~(AddSource.inside /\ is_dir(pre, AddSource.p, AddSource.k))
    /\ ~AddDeclined

\* C27: an add of key=@path whose path resolves to an existing file succeeds,
\* the key file holds the bytes the source file held, and the source file
\* holds them still.
C27_FileReferenceCopiesSource ==
    AddFromFile =>
        /\ call.ok
        /\ HasFile(fs, AddPath, AddKey)
        /\ FileOf(fs, AddPath, AddKey) = read(pre, AddSource)
        /\ AddSource.inside =>
              /\ HasFile(fs, AddSource.p, AddSource.k)
              /\ FileOf(fs, AddSource.p, AddSource.k) = read(pre, AddSource)

----------------------------------------------------------------------------
(* C28, C29: downloaded bytes are not verified; a repeated fetch *)

\* a GET for d was sent and bytes were received and written to its
\* destination
Received(d) ==
    /\ Requested(d)
    /\ filename(d).ok
    /\ filename(d).v \in DOMAIN BinariesOf(fs, dm.binding_name)
    /\ BinariesOf(fs, dm.binding_name)[filename(d).v] # <<>>

\* C28: a dependency whose GET was answered is treated as fetched whatever
\* the bytes: its worker does not fail, and when every dependency of the
\* list either was up to date or had its GET answered, download_dependencies
\* returns success with the files as received, also when a file's SHA-256
\* is not the declared digest.
C28_DownloadedBytesNotVerified ==
    (MappingRunning \/ MappingDone) =>
        /\ \A d \in Deps : \A i \in DOMAIN workers :
              (Received(d) /\ workers[i].d = d) => workers[i].at # "panicked"
        /\ (Fetched /\ dm.max_simult >= 1
               /\ \A d \in Deps :
                     Satisfied(pre, dm.binding_name, d) \/ Received(d))
             => FetchOk

\* the fetch returned success and the file of the only dependency holds bytes
\* whose digest is not the declared one
C28_Witness ==
    /\ FetchOk
    /\ dm.deps = <<DepA>>
    /\ Requested(DepA)
    /\ BinariesOf(fs, dm.binding_name)[filename(DepA).v] = Corrupt
    /\ sha256_hex(Corrupt) # DepA.sha256

\* every dependency of the list was up to date when the fetch started
AllSatisfied == \A d \in Deps : Satisfied(pre, dm.binding_name, d)

\* C29: a fetch that starts with the file of every dependency in place and
\* hashing to its declared digest, as an earlier successful fetch of the same
\* list into the same binding left them, sends no GET, leaves every file
\* under binaries as it was, fails no worker and returns success.
C29_RepeatedFetchIsIdempotent ==
    ((MappingRunning \/ MappingDone) /\ dm.binding_name # <<>> /\ AllSatisfied) =>
        /\ requests = <<>>
        /\ BinariesOf(fs, dm.binding_name) = BinariesOf(pre, dm.binding_name)
        /\ \A i \in DOMAIN workers : workers[i].at # "panicked"
        /\ Fetched => FetchOk

\* the second fetch of two dependencies: both were popped and processed, and
\* nothing was requested
C29_Witness ==
    /\ FetchOk
    /\ dm.max_simult >= 1
    /\ dm.deps = <<DepA, DepB>>
    /\ AllSatisfied
    /\ Processed(DepA) /\ Processed(DepB)
    /\ requests = <<>>
    /\ BinariesOf(fs, dm.binding_name) = BinariesOf(pre, dm.binding_name)

----------------------------------------------------------------------------
(* C30: two dependencies stored under one filename *)

Colliding(d, e) ==
    /\ d.uri # e.uri
    /\ filename(d).ok
    /\ filename(d) = filename(e)

\* the complete bodies a GET of d can be answered with
Bodies(d) == {r.body : r \in {x \in Responses(d) : x.ok}}

RequestsOf(d, e) == {j \in 1..Len(requests) : requests[j] \in {d.uri, e.uri}}

\* the one of d and e whose GET was sent last
LastWriter(d, e) ==
    LET j == CHOOSE k \in RequestsOf(d, e) : \A h \in RequestsOf(d, e) : h <= k
    IN  IF requests[j] = d.uri THEN d ELSE e

\* C30: for two dependencies with different uris and the same filename, a
\* fetch that fails has a worker whose GET was refused (its destination is
\* left empty): the collision itself fails nothing.  After a successful fetch
\* by at least one worker both were processed, and the file they share holds
\* one complete body of the dependency whose GET was sent last, or what it
\* held before when no GET was sent; it never holds pieces of two bodies,
\* whatever the interleaving of the workers.
C30_CollidingFilesHoldOneBody ==
    Fetched =>
        \A d, e \in Deps :
            Colliding(d, e) =>
                LET files == BinariesOf(fs, dm.binding_name)
                    name == filename(d).v
                IN  /\ FetchErr =>
                          \E i \in DOMAIN workers :
                              /\ workers[i].at = "panicked"
                              /\ workers[i].d \in {d, e}
                              /\ files[name] = <<>>
                    /\ (FetchOk /\ dm.max_simult >= 1) =>
                          /\ Processed(d) /\ Processed(e)
                          /\ name \in DOMAIN files
                          /\ IF RequestsOf(d, e) = {}
                             THEN files[name] = BinariesOf(pre, dm.binding_name)[name]
                             ELSE files[name] \in Bodies(LastWriter(d, e))

\* two workers fetched the two dependencies: the GET of the second of the
\* manifest was sent first, and the file holds the body of the first
C30_Witness ==
    /\ FetchOk
    /\ dm.max_simult = MaxSimult
    /\ dm.deps = <<DepA, DepC>>
    /\ requests = <<UriC, UriA>>
    /\ BinariesOf(fs, dm.binding_name)[filename(DepA).v] = BodyA

----------------------------------------------------------------------------
(* C31: the binding a successful dependency mapping leaves *)

\* the command returned Ok: the fetch and add_bindings both succeeded
MappingOk == Fetched /\ call.ok /\ ~call.panicked

DistinctDigests ==
    \A j, k \in 1..Len(dm.deps) : j # k => dm.deps[j].sha256 # dm.deps[k].sha256

\* the value of the key of d: file:///bindings/<binding_name>/binaries/<filename>
MappedTo(d) ==
    <<"file:///bindings/">> \o dm.binding_name \o <<"/binaries/">> \o filename(d).v

\* C31: after a dependency mapping that succeeded for a manifest with
\* pairwise distinct digests, the binding holds for every dependency of the
\* manifest a key file named by its digest with the content
\* file:///bindings/<binding_name>/binaries/<filename>, and the type file
\* holds dependency-mapping.
C31_MappingWritesEveryKey ==
    (MappingOk /\ DistinctDigests) =>
        /\ \A d \in Deps :
              /\ filename(d).ok
              /\ HasFile(fs, dm.binding_name, d.sha256)
              /\ FileOf(fs, dm.binding_name, d.sha256) = MappedTo(d)
        /\ Deps # {} =>
              /\ HasFile(fs, dm.binding_name, TypeFile)
              /\ FileOf(fs, dm.binding_name, TypeFile) = DMType

----------------------------------------------------------------------------
(* C32: each dependency is popped once, by one worker at a time *)

\* the workers that hold a popped dependency, and those processing one
Holding == {i \in DOMAIN workers : workers[i].d # NoDependency}
Active == {i \in DOMAIN workers : workers[i].at = "download"}

\* the dependencies popped so far: pop takes the last element
Popped == Range(SubSeq(dm.deps, Len(queue) + 1, Len(dm.deps)))

\* C32: throughout a fetch the queue holds the dependencies not yet popped,
\* each once; a worker holds only a dependency that was popped and no two
\* workers hold the same one; no GET is sent twice for a dependency; a worker
\* that is processing a dependency is the one that took the lock for its pop;
\* and the dependencies in process are never more than the pool size.
C32_EachDependencyPoppedOnce ==
    (MappingRunning \/ Fetched) =>
        /\ queue = SubSeq(dm.deps, 1, Len(queue))
        /\ \A i \in Holding : workers[i].d \in Popped
        /\ \A i, j \in Holding : i # j => workers[i].d # workers[j].d
        /\ \A j, k \in 1..Len(requests) : j # k => requests[j] # requests[k]
        /\ \A i \in Active : mutex.holder = i
        /\ Cardinality(Active) <= dm.max_simult

\* the first worker has processed the dependency it popped and waits for the
\* lock while the second one processes the other dependency
C32_Witness ==
    /\ MappingRunning
    /\ dm.max_simult = MaxSimult
    /\ dm.deps = <<DepA, DepB>>
    /\ queue = <<>>
    /\ Requested(DepB)
    /\ workers[1].at = "lock"
    /\ workers[2].at = "download"
    /\ workers[2].d = DepA

----------------------------------------------------------------------------
(* C33: download_dependencies returns *)

Waiting(i) == MappingRunning /\ i \in DOMAIN workers /\ workers[i].at = "lock"

\* C33: given that the threads are scheduled and every download attempt
\* ends, a fetch that has started returns, and a worker that is about to
\* take the queue lock gets past it (it pops, ends its loop or fails on the
\* poisoned mutex) unless the fetch returns first; no worker waits for ever,
\* also after another worker has failed.
C33_FetchReturns ==
    /\ MappingRunning ~> MappingDone
    /\ \A i \in 1..MaxSimult : Waiting(i) ~> ~Waiting(i)

\* the fetch returned its error after the second worker failed on its
\* download and the first on the poisoned mutex
C33_Witness ==
    /\ FetchErr
    /\ dm.max_simult = MaxSimult
    /\ workers[1].at = "panicked" /\ workers[1].d = NoDependency
    /\ workers[2].at = "panicked" /\ workers[2].d # NoDependency

----------------------------------------------------------------------------
(* C34: the policy the delete command selects *)

\* DeleteCommandHandler::handle on parsed arguments: -n, any -k, -f or not
DeleteCommand ==
    /\ pc = "idle"
    /\ \E n \in NameOpts \cup {Some(p) : p \in Types}, keys \in KeyLists,
          given \in BOOLEAN :
         LET FORCE == SetTrue(given)
             confirmer == IF contains_id(FORCE) THEN "Never" ELSE "Console"
             self == BindingProcessor_new(None, n, confirmer)
             arg == [keys |-> keys, force |-> given]
         IN  \E stdin \in Stdins(confirmer, IF Len(keys) = 0 THEN 1 ELSE Len(keys)) :
               LET r == IF ~n.some
                        THEN WithAsked(Err("binding name is required", fs), <<>>)
                        ELSE delete_bindings(fs, self, keys, stdin)
               IN  /\ fs' = r.fs
                   /\ pre' = fs
                   /\ call' = Called("delete", self, arg, r)
                   /\ pc' = "done"
    /\ UNCHANGED fetchVars

NextDelete == AddBinding \/ DeleteCommand \/ Return

SpecDelete == Init /\ [][NextDelete]_vars

DeleteCommandDone ==
    pc = "done" /\ call.op = "delete" /\ call.self.binding_name.some

\* C34: a delete command given the force flag runs under the policy that
\* approves without prompting, so on an existing bindings root it succeeds
\* and the listed keys, or with no key the whole binding, are gone; a delete
\* command without the flag runs under the interactive policy.
C34_ForceSelectsApproval ==
    DeleteCommandDone =>
        /\ call.arg.force =>
              /\ call.self.confirmer = "Always"
              /\ call.asked = <<>>
              /\ pre.home =>
                    /\ call.ok
                    /\ IF call.arg.keys = <<>>
                       THEN ~HasDir(fs, DeletePath)
                       ELSE fs = WithoutFiles(pre, DeletePath, Range(call.arg.keys))
        /\ ~call.arg.force => call.self.confirmer = "Console"

----------------------------------------------------------------------------
(* C35: the destination file of a dependency whose GET fails *)

\* the GET of the dependency that worker i popped was sent and failed
GetFailed(i) ==
    /\ workers[i].at = "panicked"
    /\ workers[i].d # NoDependency
    /\ Requested(workers[i].d)

\* C35: when the GET of a dependency fails, a file that was at its
\* destination path when the command started still holds the content it had
\* then.
C35_FailedGetKeepsDestination ==
    (MappingRunning \/ Fetched) =>
        \A i \in DOMAIN workers :
            LET d == workers[i].d
                name == filename(d).v
            IN  (/\ GetFailed(i)
                 /\ Alone(d)
                 /\ name \in DOMAIN BinariesOf(pre, dm.binding_name))
                    => /\ name \in DOMAIN BinariesOf(fs, dm.binding_name)
                       /\ BinariesOf(fs, dm.binding_name)[name]
                            = BinariesOf(pre, dm.binding_name)[name]

----------------------------------------------------------------------------
(* C36: the queue when download_dependencies returns Ok *)

\* C36: when download_dependencies has returned Ok, for a pool of any size
\* from 0 on, the queue is empty and every dependency of the manifest has
\* been popped and processed.
C36_SuccessEmptiesQueue ==
    FetchOk =>
        /\ queue = <<>>
        /\ \A d \in Deps : Processed(d)

----------------------------------------------------------------------------
(* C37: what a failed add leaves behind *)

\* C37: an add_binding call that returns an error (no binding type, a pair
\* without "=", an overwrite that was declined, a source file that does not
\* resolve) leaves the tree under the bindings root as it was when the call
\* started: no directory, type file or key file is created or changed.
C37_FailedAddChangesNothing ==
    (AddDone /\ ~call.ok) => fs = pre

====
